---- MODULE Spec2Model ----
(***************************************************************************)
(* Resilience and distributed-state layer of the task-management backend:  *)
(* RedisCacheService (namespaced cache over a shared Redis), the sliding-   *)
(* window RateLimitGuard built on the raw client, and the refresh-token     *)
(* rotation of AuthService built on the cache.                              *)
(*                                                                          *)
(* Time is the wall clock in milliseconds (Date.now()); Redis expiries are  *)
(* absolute instants in the same unit.                                      *)
(***************************************************************************)
EXTENDS Integers, Sequences, FiniteSets, TLC

(***************************************************************************)
(* Bounds of the model.                                                     *)
(***************************************************************************)
\* the instants (ms) at which the cache specification observes the clock
CacheInstants == {0, 500, 1000, 1500, 299500, 300000, 300500}

(***************************************************************************)
(* Program constants.                                                       *)
(***************************************************************************)
defaultTTL == 300
defaultNamespace == "app"

\* an absent (undefined) string argument; `x || dflt` treats it as falsy
NoNs == ""
\* an absent (undefined) or zero numeric argument; `x || dflt` treats both as falsy
NoTtl == 0

VARIABLES
    store,      \* the shared Redis keyspace: full key -> entry
    now,        \* wall clock, ms
    up,         \* TRUE while the Redis connection serves commands
    ret,        \* outcome of the RedisCacheService call completed by the last step, if any
    written,    \* full key -> the last value RedisCacheService.set stored there, untouched since
    scan,       \* the scan stream of the deleteByPattern or clear call in flight, if any
    meta,       \* rate-limit metadata the decorators put on the handler and the controller
    rl,         \* per request slot: the position and locals of RateLimitGuard.canActivate
    rlRet,      \* the rate-limit check completed by the last step, if any
    admitted,   \* rate-limit key -> request instant -> number of requests admitted at it
    lastReq,    \* rate-limit key -> instant of the latest request seen for it
    nreq,       \* number of requests the guard has seen
    rlRaced,    \* two rate-limit checks have overlapped in time
    rlFault,    \* a store command of a rate-limit check has failed
    rlSlow,     \* the clock has advanced while a rate-limit check was in flight
    creds,      \* the refresh credentials AuthService has handed out
    ntok,       \* number of token identifiers generated
    rt,         \* per call slot: the position and locals of AuthService.refreshToken
    rtRet,      \* the refreshToken call completed by the last step, if any
    rotations,  \* token identifier -> number of refreshToken calls that rotated it
    breakers,   \* CircuitBreakerService.breakers: name -> the breaker registered under it
    nbreakers,  \* number of breakers constructed
    cb,         \* per call slot: the wrapped operation a breaker has invoked and awaits
    cbRet,      \* the CircuitBreakerService.execute call completed by the last step, if any
    ncalls,     \* number of execute calls made
    arg,        \* the input of the function call under observation
    res,        \* what that call gave, if it has been made
    tasks,      \* the tasks table: task id -> the stored task
    tkRet,      \* the TasksService call completed by the last step, if any
    queue,      \* the jobs added to the 'task-processing' queue, oldest first
    client      \* the Redis client of RedisCacheService: its connection and its waiting commands

cacheVars == <<ret, written, scan>>
limiterVars == <<meta, rl, rlRet, admitted, lastReq, nreq, rlRaced, rlFault, rlSlow>>
authVars == <<creds, ntok, rt, rtRet, rotations>>
breakerVars == <<breakers, nbreakers, cb, cbRet, ncalls>>
webVars == <<arg, res, tasks, tkRet, queue, client>>
vars == <<store, now, up, cacheVars, limiterVars, authVars, breakerVars, webVars>>

\* no call under observation, and no outcome yet
NoArg == [fn |-> "none"]
NoRes == [fn |-> "none"]

(***************************************************************************)
(* JavaScript values and their JSON text.  A value is [t, v]: its type tag  *)
(* and its printed form.                                                    *)
(***************************************************************************)
JsNull == [t |-> "null", v |-> "null"]
JsNaN == [t |-> "number", v |-> "NaN"]
JsNum(s) == [t |-> "number", v |-> s]
JsStr(s) == [t |-> "string", v |-> s]
JsBool(s) == [t |-> "boolean", v |-> s]
JsObj(body) == [t |-> "object", v |-> body]
\* a Date instance, printed as its ISO string
JsDate(iso) == [t |-> "date", v |-> iso]

NumberLiterals == {"0", "1", "2", "3"}
Quote == "\""

\* JSON.stringify(value): NaN prints as null, a Date as its ISO string
JsonStringify(value) ==
    CASE value.t = "null" -> "null"
      [] value.t = "number" -> IF value.v = "NaN" THEN "null" ELSE value.v
      [] value.t = "boolean" -> value.v
      [] value.t = "string" -> Quote \o value.v \o Quote
      [] value.t = "date" -> Quote \o value.v \o Quote
      [] value.t = "object" -> "{" \o value.v \o "}"

\* the text is JSON that JSON.parse accepts
JsonParses(text) ==
    \/ text \in {"null", "true", "false"}
    \/ text \in NumberLiterals
    \/ /\ Len(text) >= 2
       /\ \/ SubSeq(text, 1, 1) = Quote /\ SubSeq(text, Len(text), Len(text)) = Quote
          \/ SubSeq(text, 1, 1) = "{" /\ SubSeq(text, Len(text), Len(text)) = "}"

\* JSON.parse(text), for text that parses (it throws SyntaxError otherwise)
JsonParse(text) ==
    CASE text = "null" -> JsNull
      [] text \in {"true", "false"} -> JsBool(text)
      [] text \in NumberLiterals -> JsNum(text)
      [] Len(text) >= 2 /\ SubSeq(text, 1, 1) = Quote -> JsStr(SubSeq(text, 2, Len(text) - 1))
      [] OTHER -> JsObj(SubSeq(text, 2, Len(text) - 1))

\* values that survive JSON.stringify / JSON.parse unchanged
JsonSerializable(value) == value.t \in {"null", "boolean", "string", "object"} \/ (value.t = "number" /\ value.v # "NaN")

(***************************************************************************)
(* The Redis keyspace.  An entry is a string (val) or a sorted set whose    *)
(* members are their own scores (members); exp = 0 is a key without expiry, *)
(* otherwise the instant at which the key is gone.                          *)
(***************************************************************************)
NoExpiry == 0
StringEntry(val, exp) == [type |-> "string", val |-> val, members |-> {}, exp |-> exp]
ZsetEntry(members, exp) == [type |-> "zset", val |-> "", members |-> members, exp |-> exp]

Remove(s, keys) == [k \in DOMAIN s \ keys |-> s[k]]
Put(s, k, e) == [x \in DOMAIN s \cup {k} |-> IF x = k THEN e ELSE s[x]]

\* Redis drops a key once its expiry instant is reached
Expire(s, t) == Remove(s, {k \in DOMAIN s : s[k].exp # NoExpiry /\ s[k].exp <= t})

\* SETEX with the seconds taken for milliseconds
RedisSetexMillis(s, k, seconds, val) == Put(s, k, StringEntry(val, now + seconds))
\* SETEX key seconds value
RedisSetex(s, k, seconds, val) == Put(s, k, StringEntry(val, now + seconds * 1000))
\* SET key value
RedisSet(s, k, val) == Put(s, k, StringEntry(val, NoExpiry))
\* GET key answers WRONGTYPE for a key that holds a sorted set
RedisGetFails(s, k) == k \in DOMAIN s /\ s[k].type # "string"
\* GET key: the string, or "" standing for the nil reply
RedisGet(s, k) == IF k \in DOMAIN s THEN s[k].val ELSE ""
RedisGetIsNil(s, k) == k \notin DOMAIN s
\* DEL key...: the number of keys removed
RedisDelCount(s, keys) == Cardinality(keys \cap DOMAIN s)
RedisDel(s, keys) == Remove(s, keys)

\* sorted-set commands answer WRONGTYPE for a key that holds a string
RedisZaddFails(s, k) == k \in DOMAIN s /\ s[k].type # "zset"
\* ZADD key score member, with member = score: an existing member is not added again
RedisZadd(s, k, member) ==
    IF k \in DOMAIN s THEN Put(s, k, ZsetEntry(s[k].members \cup {member}, s[k].exp))
    ELSE Put(s, k, ZsetEntry({member}, NoExpiry))
\* ZREMRANGEBYSCORE that removes nothing
RedisZremrangebyscoreNone(s, k, min, max) == s
\* ZREMRANGEBYSCORE key min max removes the members with min <= score <= max;
\* a sorted set left empty is removed
RedisZremrangebyscore(s, k, min, max) ==
    IF k \notin DOMAIN s THEN s
    ELSE LET keep == {m \in s[k].members : ~(min <= m /\ m <= max)}
         IN  IF keep = {} THEN Remove(s, {k}) ELSE Put(s, k, ZsetEntry(keep, s[k].exp))
\* ZCARD key
RedisZcard(s, k) == IF k \in DOMAIN s THEN Cardinality(s[k].members) ELSE 0
\* EXPIRE key seconds
RedisExpire(s, k, seconds) ==
    IF k \in DOMAIN s THEN Put(s, k, [s[k] EXCEPT !.exp = now + seconds * 1000]) ELSE s
\* TTL key: remaining seconds (rounded to nearest), -1 without expiry, -2 without key
RedisTtl(s, k) ==
    IF k \notin DOMAIN s THEN -2
    ELSE IF s[k].exp = NoExpiry THEN -1
    ELSE (s[k].exp - now + 500) \div 1000

(***************************************************************************)
(* RedisCacheService                                                        *)
(***************************************************************************)
buildKey(key, namespace) == (IF namespace # NoNs THEN namespace ELSE defaultNamespace) \o ":" \o key

NoRet == [op |-> "none", key |-> "", kind |-> "none", v |-> JsNull, b |-> FALSE, n |-> 0,
          failed |-> FALSE, vs |-> <<>>]
\* kind is how the call ended: "void", "value" (v), "bool" (b), "count" (n), "values" (vs)
\* or "throw"
Ret(op, fullKey, kind, v, b, n, failed) ==
    [op |-> op, key |-> fullKey, kind |-> kind, v |-> v, b |-> b, n |-> n, failed |-> failed,
     vs |-> <<>>]

\* set() without the default: ttlSeconds || options?.ttl
SetTtlNoDefault(ttlSeconds, optTtl) == IF ttlSeconds # NoTtl THEN ttlSeconds ELSE optTtl
\* the ttl that set() applies: ttlSeconds || options?.ttl || this.defaultTTL
SetTtl(ttlSeconds, optTtl) ==
    IF ttlSeconds # NoTtl THEN ttlSeconds ELSE IF optTtl # NoTtl THEN optTtl ELSE defaultTTL

\* the keyspace after set()'s store command
SetStore(s, fullKey, ttl, serializedValue) ==
    IF ttl > 0 THEN RedisSetex(s, fullKey, ttl, serializedValue)
    ELSE RedisSet(s, fullKey, serializedValue)

\* how set() ends when the store command fails: logs and rethrows
SetOnError(fullKey) == Ret("set", fullKey, "throw", JsNull, FALSE, 0, TRUE)

\* the outcome and the keyspace of set(key, value, ttlSeconds, {ttl, namespace})
setRet(key, namespace) ==
    IF up THEN Ret("set", buildKey(key, namespace), "void", JsNull, FALSE, 0, FALSE)
    ELSE SetOnError(buildKey(key, namespace))
setStore(key, value, ttlSeconds, optTtl, namespace) ==
    IF up THEN SetStore(store, buildKey(key, namespace), SetTtl(ttlSeconds, optTtl), JsonStringify(value))
    ELSE store

set(key, value, ttlSeconds, optTtl, namespace) ==
    /\ store' = setStore(key, value, ttlSeconds, optTtl, namespace)
    /\ ret' = setRet(key, namespace)
    /\ written' = IF up
                  THEN Put(written, buildKey(key, namespace),
                           [v |-> value, ttlSeconds |-> ttlSeconds, optTtl |-> optTtl, at |-> now])
                  ELSE written
    /\ UNCHANGED <<now, up, scan>>

\* get() rethrowing what it caught
GetOnErrorRethrow(fullKey) == Ret("get", fullKey, "throw", JsNull, FALSE, 0, TRUE)
\* how get() ends when the store command or JSON.parse throws: logs and returns null
GetOnError(fullKey) == Ret("get", fullKey, "value", JsNull, FALSE, 0, TRUE)

\* the GET command or the JSON.parse of its reply throws
GetThrows(fullKey) ==
    \/ ~up
    \/ RedisGetFails(store, fullKey)
    \/ /\ ~RedisGetIsNil(store, fullKey)
       /\ RedisGet(store, fullKey) # ""
       /\ ~JsonParses(RedisGet(store, fullKey))

\* the value get() returns from the reply of a served GET: null for nil or "", else the parsed text
GetValue(fullKey) ==
    IF RedisGetIsNil(store, fullKey) \/ RedisGet(store, fullKey) = "" THEN JsNull
    ELSE JsonParse(RedisGet(store, fullKey))

\* the outcome of get(key, {namespace})
getRet(key, namespace) ==
    IF GetThrows(buildKey(key, namespace)) THEN GetOnError(buildKey(key, namespace))
    ELSE Ret("get", buildKey(key, namespace), "value", GetValue(buildKey(key, namespace)), FALSE, 0, FALSE)

get(key, namespace) ==
    /\ ret' = getRet(key, namespace)
    /\ UNCHANGED <<store, now, up, written, scan>>

\* how delete() ends when the store command fails: logs and returns false
DeleteOnError(fullKey) == Ret("delete", fullKey, "bool", JsNull, FALSE, 0, TRUE)

\* the outcome and the keyspace of delete(key, {namespace})
\* delete that answers true whenever the DEL command was served
deleteRetServed(key, namespace) ==
    IF up THEN Ret("delete", buildKey(key, namespace), "bool", JsNull, TRUE, 0, FALSE)
    ELSE DeleteOnError(buildKey(key, namespace))
deleteRet(key, namespace) ==
    IF up THEN Ret("delete", buildKey(key, namespace), "bool", JsNull,
                   RedisDelCount(store, {buildKey(key, namespace)}) > 0, 0, FALSE)
    ELSE DeleteOnError(buildKey(key, namespace))
deleteStore(key, namespace) ==
    IF up THEN RedisDel(store, {buildKey(key, namespace)}) ELSE store

delete(key, namespace) ==
    /\ store' = deleteStore(key, namespace)
    /\ ret' = deleteRet(key, namespace)
    /\ written' = IF up THEN Remove(written, {buildKey(key, namespace)}) ELSE written
    /\ UNCHANGED <<now, up, scan>>

\* the outcome of has(key, {namespace}): EXISTS answers 1; a failure is caught and gives false
hasRet(key, namespace) ==
    IF up THEN Ret("has", buildKey(key, namespace), "bool", JsNull,
                   buildKey(key, namespace) \in DOMAIN store, 0, FALSE)
    ELSE Ret("has", buildKey(key, namespace), "bool", JsNull, FALSE, 0, TRUE)

has(key, namespace) ==
    /\ ret' = hasRet(key, namespace)
    /\ UNCHANGED <<store, now, up, written, scan>>

\* one element of mget(): MGET answers nil for a missing key and for a key that is not a
\* string; nil, "" and text that does not parse give null
MgetValue(fullKey) ==
    IF RedisGetIsNil(store, fullKey) \/ RedisGetFails(store, fullKey) \/ RedisGet(store, fullKey) = ""
    THEN JsNull
    ELSE IF JsonParses(RedisGet(store, fullKey)) THEN JsonParse(RedisGet(store, fullKey))
    ELSE JsNull

\* the outcome of mget(keys, {namespace}); a failed MGET is caught and gives null for every key
mgetRet(keys, namespace) ==
    IF up
    THEN [Ret("mget", "", "values", JsNull, FALSE, 0, FALSE) EXCEPT
             !.vs = [i \in 1..Len(keys) |-> MgetValue(buildKey(keys[i], namespace))]]
    ELSE [Ret("mget", "", "values", JsNull, FALSE, 0, TRUE) EXCEPT
             !.vs = [i \in 1..Len(keys) |-> JsNull]]

mget(keys, namespace) ==
    /\ ret' = mgetRet(keys, namespace)
    /\ UNCHANGED <<store, now, up, written, scan>>

\* the command mset() queues for one pair: SETEX when the pair has a ttl > 0, else SET
\* without expiry
msetCommand(s, pair, namespace) ==
    IF pair.ttl # NoTtl /\ pair.ttl > 0
    THEN RedisSetex(s, buildKey(pair.key, namespace), pair.ttl, JsonStringify(pair.value))
    ELSE RedisSet(s, buildKey(pair.key, namespace), JsonStringify(pair.value))

\* the keyspace after the queued commands of mset() ran in the order of the pairs
RECURSIVE msetPipeline(_, _, _)
msetPipeline(s, keyValuePairs, namespace) ==
    IF keyValuePairs = <<>> THEN s
    ELSE msetPipeline(msetCommand(s, Head(keyValuePairs), namespace), Tail(keyValuePairs), namespace)

msetStore(keyValuePairs, namespace) ==
    IF up THEN msetPipeline(store, keyValuePairs, namespace) ELSE store

\* the outcome of mset(keyValuePairs, {namespace}): pipeline.exec() resolves with one
\* [error, reply] entry per queued command, also when commands failed, and mset() does not
\* look at the entries; failed records that the commands were not served
msetRet(keyValuePairs, namespace) ==
    Ret("mset", "", "void", JsNull, FALSE, 0, ~up)

mset(keyValuePairs, namespace) ==
    /\ store' = msetStore(keyValuePairs, namespace)
    /\ ret' = msetRet(keyValuePairs, namespace)
    /\ written' = IF up
                  THEN Remove(written, {buildKey(keyValuePairs[i].key, namespace) : i \in 1..Len(keyValuePairs)})
                  ELSE written
    /\ UNCHANGED <<now, up, scan>>

\* MATCH of SCAN: a glob pattern of literal characters, ? and *
RECURSIVE GlobMatch(_, _)
GlobMatch(pattern, text) ==
    IF pattern = "" THEN text = ""
    ELSE IF SubSeq(pattern, 1, 1) = "*"
         THEN \/ GlobMatch(SubSeq(pattern, 2, Len(pattern)), text)
              \/ text # "" /\ GlobMatch(pattern, SubSeq(text, 2, Len(text)))
         ELSE /\ text # ""
              /\ SubSeq(pattern, 1, 1) = "?" \/ SubSeq(pattern, 1, 1) = SubSeq(text, 1, 1)
              /\ GlobMatch(SubSeq(pattern, 2, Len(pattern)), SubSeq(text, 2, Len(text)))

\* SCAN replies one scan stream reads before the cursor is back at 0
MaxScanBatches == 2

\* no scan stream.  A stream in flight has the full pattern (match), the keys SCAN still has
\* to return because they were there when it started (must), the DEL counts that reached
\* deletedCount, and the number of replies
IdleScan == [pc |-> "idle", op |-> "none", ns |-> "", match |-> "", must |-> {},
             deletedCount |-> 0, batches |-> 0]

\* deleteByPattern / clear up to the creation of the scan stream
scanStream(op, ns, match) ==
    /\ scan.pc = "idle"
    /\ scan' = [IdleScan EXCEPT !.pc = "scan", !.op = op, !.ns = ns, !.match = match,
                                !.must = DOMAIN store]
    /\ ret' = NoRet
    /\ UNCHANGED <<store, now, up, written>>

\* deleteByPattern(pattern, {namespace}): scans for `${namespace}:${pattern}`
deleteByPattern(pattern, namespace) ==
    LET ns == IF namespace # NoNs THEN namespace ELSE defaultNamespace
    IN  scanStream("deleteByPattern", ns, ns \o ":" \o pattern)

\* clear(namespace): scans for `${ns}:*`
clear(namespace) ==
    LET ns == IF namespace # NoNs THEN namespace ELSE defaultNamespace
    IN  scanStream("clear", ns, ns \o ":*")

\* how the call ends on 'end': deleteByPattern returns deletedCount, clear returns nothing
ScanOnEnd(sc) ==
    IF sc.op = "deleteByPattern"
    THEN Ret("deleteByPattern", sc.match, "count", JsNull, FALSE, sc.deletedCount, FALSE)
    ELSE Ret("clear", sc.match, "void", JsNull, FALSE, 0, FALSE)

\* how the call ends on 'error': deleteByPattern logs and returns 0, clear logs and rethrows
ScanOnError(sc) ==
    IF sc.op = "deleteByPattern"
    THEN Ret("deleteByPattern", sc.match, "count", JsNull, FALSE, 0, TRUE)
    ELSE Ret("clear", sc.match, "throw", JsNull, FALSE, 0, TRUE)

\* one SCAN reply: the 'data' handler sends DEL for the matching keys of the reply at once.
\* A key that is there from the start to the end of the scan is in some reply; a key
\* created meanwhile may be in none.  The reply to the DEL of a batch arrives before the
\* next SCAN reply and adds to deletedCount; after the last batch 'end' resolves the call
\* before the reply to its DEL arrives, so that count is not added.
scanStreamData(visit, last) ==
    /\ scan.pc = "scan"
    /\ up
    /\ visit \subseteq DOMAIN store
    /\ IF last THEN (scan.must \cap DOMAIN store) \subseteq visit
               ELSE scan.batches + 1 < MaxScanBatches
    /\ LET keys == {k \in visit : GlobMatch(scan.match, k)}
       IN  /\ store' = RedisDel(store, keys)
           /\ written' = Remove(written, keys)
           /\ IF last
              THEN /\ ret' = ScanOnEnd(scan)
                   /\ scan' = IdleScan
              ELSE /\ ret' = NoRet
                   /\ scan' = [scan EXCEPT !.must = (@ \cap DOMAIN store) \ visit,
                                           !.deletedCount = @ + RedisDelCount(store, keys),
                                           !.batches = @ + 1]
    /\ UNCHANGED <<now, up>>

\* the SCAN command fails: the stream emits 'error'
scanStreamError ==
    /\ scan.pc = "scan"
    /\ ~up
    /\ ret' = ScanOnError(scan)
    /\ scan' = IdleScan
    /\ UNCHANGED <<store, now, up, written>>

\* a caller of getClient() writes a raw string, bypassing the JSON layer
getClientSet(fullKey, raw) ==
    /\ up
    /\ store' = RedisSet(store, fullKey, raw)
    /\ written' = Remove(written, {fullKey})
    /\ ret' = NoRet
    /\ UNCHANGED <<now, up, scan>>

\* a caller of getClient() adds a member to a sorted set under the key
getClientZadd(fullKey, member) ==
    /\ up
    /\ ~RedisZaddFails(store, fullKey)
    /\ store' = RedisZadd(store, fullKey, member)
    /\ written' = Remove(written, {fullKey})
    /\ ret' = NoRet
    /\ UNCHANGED <<now, up, scan>>

(***************************************************************************)
(* RateLimitGuard                                                           *)
(***************************************************************************)
\* request slots: the guard executions that can be in flight together
Slots == {"r1", "r2"}
SlotRank(p) == IF p = "r1" THEN 1 ELSE 2
\* requests the guard sees in one run
MaxRequests == 3

\* configuration read by the constructor
RATE_LIMIT_MAX == 1
RATE_LIMIT_TTL == 1
defaultLimit == IF RATE_LIMIT_MAX # 0 THEN RATE_LIMIT_MAX ELSE 100
defaultWindowMs == (IF RATE_LIMIT_TTL # 0 THEN RATE_LIMIT_TTL ELSE 60) * 1000

\* absent metadata (reflector.get returns undefined); options that are present name their
\* limit and windowMs and may name a key generator ("" when they do not)
NoOptions == [present |-> FALSE, limit |-> 0, windowMs |-> 0, keyGenerator |-> ""]
Options(limit, windowMs, keyGenerator) ==
    [present |-> TRUE, limit |-> limit, windowMs |-> windowMs, keyGenerator |-> keyGenerator]
NoMeta == [handler |-> NoOptions, controller |-> NoOptions]
\* the decorations of the protected operations of the model
RateLimitMetas ==
    { NoMeta,
      [handler |-> Options(2, 1200, ""), controller |-> NoOptions],
      [handler |-> NoOptions, controller |-> Options(1, 1200, "")] }

\* first 16 hex digits of the SHA-256 digest of the address
Sha256Hex16(ip) ==
    CASE ip = "1.1.1.1" -> "f1412386aa8db257"
      [] ip = "2.2.2.2" -> "1e95611092391cac"
      [] ip = "::1" -> "eff8e7ca506627fe"
      [] ip = "10.0.0.7" -> "130e4daba9786013"
      [] OTHER -> "b23a6a8439c0dde5"

\* a key generator that leaves the address as it is
defaultKeyGeneratorRawIp(request) ==
    LET ip == IF request.ip # "" THEN request.ip
              ELSE IF request.remoteAddress # "" THEN request.remoteAddress ELSE "unknown"
    IN  IF request.userId # "" THEN ip \o ":" \o request.userId ELSE ip
\* request.ip || request.connection.remoteAddress || 'unknown', hashed; the user id appended if any
defaultKeyGenerator(request) ==
    LET ip == IF request.ip # "" THEN request.ip
              ELSE IF request.remoteAddress # "" THEN request.remoteAddress ELSE "unknown"
        hashedIp == Sha256Hex16(ip)
    IN  IF request.userId # "" THEN hashedIp \o ":" \o request.userId ELSE hashedIp

\* a key generator that a decorator configures: request => request.user?.id || 'anonymous'
customKeyGenerator(request) == IF request.userId # "" THEN request.userId ELSE "anonymous"

Requests == {[ip |-> "1.1.1.1", remoteAddress |-> "1.1.1.1", userId |-> ""]}
\* the requests of the operations whose decorations vary
GuardedRequests == Requests \cup {[ip |-> "1.1.1.1", remoteAddress |-> "1.1.1.1", userId |-> "u1"]}
RateLimitKeys ==
    {"rate_limit:" \o defaultKeyGenerator(r) : r \in GuardedRequests}
        \cup {"rate_limit:" \o customKeyGenerator(r) : r \in GuardedRequests}

\* Math.ceil(a / b) for a >= 0, b > 0
Ceil(a, b) == (a + b - 1) \div b
Max(a, b) == IF a >= b THEN a ELSE b

\* rateLimitOptions = handler metadata || controller metadata
rateLimitOptions == IF meta.handler.present THEN meta.handler ELSE meta.controller
\* rateLimitOptions?.limit || this.defaultLimit
Limit == IF rateLimitOptions.limit # 0 THEN rateLimitOptions.limit ELSE defaultLimit
\* rateLimitOptions?.windowMs || this.defaultWindowMs
WindowMs == IF rateLimitOptions.windowMs # 0 THEN rateLimitOptions.windowMs ELSE defaultWindowMs
\* (rateLimitOptions?.keyGenerator || this.defaultKeyGenerator)(request)
keyGenerator(request) ==
    IF rateLimitOptions.keyGenerator # "" THEN customKeyGenerator(request)
    ELSE defaultKeyGenerator(request)

IdleCheck == [pc |-> "idle", key |-> "", t |-> 0, limit |-> 0, windowMs |-> 0, count |-> 0,
              outcome |-> "none", remaining |-> 0, reset |-> 0, current |-> 0, retryAfter |-> 0,
              faulted |-> FALSE, prior |-> 0, gap |-> 0]
NoAdmitted == [k \in RateLimitKeys |-> [t \in {} |-> 0]]
NoLastReq == [k \in RateLimitKeys |-> -1]

InFlight(p) == rl[p].pc # "idle"
\* the slot a new request takes: the first one that is free
FreeSlot(p) == ~InFlight(p) /\ \A q \in Slots : ~InFlight(q) => ~(SlotRank(q) < SlotRank(p))

\* admissions of the key at instants within the window that ends at t
AdmittedInWindow(key, t, windowMs) ==
    LET inside == {u \in DOMAIN admitted[key] : u > t - windowMs /\ u <= t}
        RECURSIVE Sum(_)
        Sum(S) == IF S = {} THEN 0
                  ELSE LET u == CHOOSE x \in S : TRUE IN admitted[key][u] + Sum(S \ {u})
    IN  Sum(inside)

\* canActivate up to the call of getCurrentCount: options, key, now, windowStart
canActivate(p, request) ==
    /\ FreeSlot(p)
    /\ nreq < MaxRequests
    /\ LET cacheKey == "rate_limit:" \o keyGenerator(request)
       IN  /\ rl' = [rl EXCEPT ![p] = [IdleCheck EXCEPT
                        !.pc = "zremrangebyscore", !.key = cacheKey, !.t = now,
                        !.limit = Limit, !.windowMs = WindowMs,
                        !.prior = AdmittedInWindow(cacheKey, now, WindowMs),
                        !.gap = IF lastReq[cacheKey] < 0 THEN -1 ELSE now - lastReq[cacheKey]]]
           /\ lastReq' = [lastReq EXCEPT ![cacheKey] = Max(@, now)]
    /\ nreq' = nreq + 1
    /\ rlRaced' = (rlRaced \/ \E q \in Slots \ {p} : InFlight(q))
    /\ rlRet' = IdleCheck
    /\ UNCHANGED <<store, now, up, cacheVars, authVars, breakerVars, webVars, meta, admitted, rlFault, rlSlow>>

\* where canActivate continues once getCurrentCount has returned count
AfterCount(check, count) ==
    [check EXCEPT !.count = count, !.pc = IF count >= check.limit THEN "ttl" ELSE "zadd"]

\* getCurrentCount: ZREMRANGEBYSCORE key 0 windowStart; a failure is caught and counts 0
getCurrentCountEvict(p) ==
    /\ rl[p].pc = "zremrangebyscore"
    /\ IF up
       THEN /\ store' = RedisZremrangebyscore(store, rl[p].key, 0, rl[p].t - rl[p].windowMs)
            /\ rl' = [rl EXCEPT ![p].pc = "zcard"]
            /\ UNCHANGED rlFault
       ELSE /\ rl' = [rl EXCEPT ![p] = [AfterCount(rl[p], 0) EXCEPT !.faulted = TRUE]]
            /\ rlFault' = TRUE
            /\ UNCHANGED store
    /\ rlRet' = IdleCheck
    /\ UNCHANGED <<now, up, cacheVars, authVars, breakerVars, webVars, meta, admitted, lastReq, nreq, rlRaced, rlSlow>>

\* getCurrentCount: ZCARD key; a failure is caught and counts 0
getCurrentCountCard(p) ==
    /\ rl[p].pc = "zcard"
    /\ IF up
       THEN /\ rl' = [rl EXCEPT ![p] = AfterCount(rl[p], RedisZcard(store, rl[p].key))]
            /\ UNCHANGED rlFault
       ELSE /\ rl' = [rl EXCEPT ![p] = [AfterCount(rl[p], 0) EXCEPT !.faulted = TRUE]]
            /\ rlFault' = TRUE
    /\ rlRet' = IdleCheck
    /\ UNCHANGED <<store, now, up, cacheVars, authVars, breakerVars, webVars, meta, admitted, lastReq, nreq, rlRaced, rlSlow>>

\* retryAfter: Math.ceil((ttl > 0 ? ttl : windowMs) / 1000)
RetryAfter(ttl, windowMs) == Ceil(IF ttl > 0 THEN ttl ELSE windowMs, 1000)

\* how canActivate ends when the TTL command fails: nothing catches the error
TtlOnError(check) == [check EXCEPT !.pc = "done", !.outcome = "error", !.faulted = TRUE]

\* a rejection that refreshes the expiry of the key as an admission does
canActivateRejectRefreshing(p) ==
    /\ rl[p].pc = "ttl"
    /\ IF up
       THEN /\ rlRet' = [rl[p] EXCEPT
                         !.pc = "done", !.outcome = "rejected", !.current = rl[p].count,
                         !.remaining = 0,
                         !.retryAfter = RetryAfter(RedisTtl(store, rl[p].key), rl[p].windowMs)]
            /\ store' = RedisExpire(store, rl[p].key, Ceil(rl[p].windowMs, 1000))
            /\ UNCHANGED rlFault
       ELSE /\ rlRet' = TtlOnError(rl[p])
            /\ rlFault' = TRUE
            /\ UNCHANGED store
    /\ rl' = [rl EXCEPT ![p] = IdleCheck]
    /\ UNCHANGED <<now, up, cacheVars, authVars, breakerVars, webVars, meta, admitted, lastReq, nreq, rlRaced, rlSlow>>
\* count >= limit: TTL key, then the 429 rejection
canActivateReject(p) ==
    /\ rl[p].pc = "ttl"
    /\ IF up
       THEN /\ rlRet' = [rl[p] EXCEPT
                         !.pc = "done", !.outcome = "rejected", !.current = rl[p].count,
                         !.remaining = 0,
                         !.retryAfter = RetryAfter(RedisTtl(store, rl[p].key), rl[p].windowMs)]
            /\ UNCHANGED rlFault
       ELSE /\ rlRet' = TtlOnError(rl[p])
            /\ rlFault' = TRUE
    /\ rl' = [rl EXCEPT ![p] = IdleCheck]
    /\ UNCHANGED <<store, now, up, cacheVars, authVars, breakerVars, webVars, meta, admitted, lastReq, nreq, rlRaced, rlSlow>>

\* incrementCount, first command of the pipeline: ZADD key timestamp timestamp
incrementCountZadd(p) ==
    /\ rl[p].pc = "zadd"
    /\ IF up /\ ~RedisZaddFails(store, rl[p].key)
       THEN /\ store' = RedisZadd(store, rl[p].key, rl[p].t)
            /\ rl' = [rl EXCEPT ![p].pc = "expire"]
            /\ UNCHANGED rlFault
       ELSE /\ rl' = [rl EXCEPT ![p].pc = "expire", ![p].faulted = TRUE]
            /\ rlFault' = TRUE
            /\ UNCHANGED store
    /\ rlRet' = IdleCheck
    /\ UNCHANGED <<now, up, cacheVars, authVars, breakerVars, webVars, meta, admitted, lastReq, nreq, rlRaced, rlSlow>>

\* the headers of an admitted request
Admit(check) ==
    [check EXCEPT !.pc = "done", !.outcome = "admitted",
                  !.remaining = Max(0, check.limit - check.count - 1),
                  !.reset = check.t + check.windowMs]

\* incrementCount, second command of the pipeline: EXPIRE key ceil(windowMs / 1000);
\* failures are logged only; canActivate then sets the headers and returns true
incrementCountExpire(p) ==
    /\ rl[p].pc = "expire"
    /\ IF up
       THEN /\ store' = RedisExpire(store, rl[p].key, Ceil(rl[p].windowMs, 1000))
            /\ rlRet' = Admit(rl[p])
            /\ UNCHANGED rlFault
       ELSE /\ rlRet' = [Admit(rl[p]) EXCEPT !.faulted = TRUE]
            /\ rlFault' = TRUE
            /\ UNCHANGED store
    /\ rl' = [rl EXCEPT ![p] = IdleCheck]
    /\ admitted' = [admitted EXCEPT ![rl[p].key] =
                       Put(@, rl[p].t, IF rl[p].t \in DOMAIN @ THEN @[rl[p].t] + 1 ELSE 1)]
    /\ UNCHANGED <<now, up, cacheVars, authVars, breakerVars, webVars, meta, lastReq, nreq, rlRaced, rlSlow>>

(***************************************************************************)
(* AuthService: refresh-token issue and rotation                            *)
(***************************************************************************)
\* refreshToken calls that can be in flight together
AuthSlots == {"a1", "a2"}
\* token identifiers generated in one run
MaxTokens == 3

\* the refresh lifetime in seconds when JWT_REFRESH_EXPIRATION is left at '7d'
refreshTokenTTL == 7 * 24 * 60 * 60

\* a character matched by \d
IsDigit(c) == c \in {"0", "1", "2", "3", "4", "5", "6", "7", "8", "9"}
DigitValue(c) ==
    CASE c = "0" -> 0 [] c = "1" -> 1 [] c = "2" -> 2 [] c = "3" -> 3 [] c = "4" -> 4
      [] c = "5" -> 5 [] c = "6" -> 6 [] c = "7" -> 7 [] c = "8" -> 8 [] c = "9" -> 9
CharAt(s, i) == SubSeq(s, i, i)
\* parseInt of a run of decimal digits
RECURSIVE ParseInt(_)
ParseInt(digits) ==
    IF digits = "" THEN 0
    ELSE 10 * ParseInt(SubSeq(digits, 1, Len(digits) - 1)) + DigitValue(CharAt(digits, Len(digits)))
\* the seconds in one unit of the duration string
multipliers == [s |-> 1, m |-> 60, h |-> 3600, d |-> 86400]
DurationUnits == {"d", "h", "m", "s"}
UnitName(c) == CASE c = "s" -> "s" [] c = "m" -> "m" [] c = "h" -> "h" [] c = "d" -> "d"
\* s[i..j] is a run of digits followed by a unit character
DurationMatchAt(s, i, j) ==
    /\ i <= j /\ j < Len(s)
    /\ \A k \in i..j : IsDigit(CharAt(s, k))
    /\ CharAt(s, j + 1) \in DurationUnits
\* refreshExpiresIn.match(/(\d+)([dhms])/): the leftmost match anywhere in the string, or none
DurationMatches(s) ==
    {ij \in (1..Len(s)) \X (1..Len(s)) : DurationMatchAt(s, ij[1], ij[2])}
DurationMatch(s) ==
    CHOOSE ij \in DurationMatches(s) : \A other \in DurationMatches(s) : ij[1] <= other[1]
\* the constructor's refreshTokenTTL for a configured JWT_REFRESH_EXPIRATION ("" when it is not set)
parseRefreshExpiresIn(configured) ==
    LET refreshExpiresIn == IF configured = "" THEN "7d" ELSE configured
    IN  IF DurationMatches(refreshExpiresIn) # {}
        THEN LET match == DurationMatch(refreshExpiresIn)
                 value == ParseInt(SubSeq(refreshExpiresIn, match[1], match[2]))
                 unit  == UnitName(CharAt(refreshExpiresIn, match[2] + 1))
             IN  value * multipliers[unit]
        ELSE 7 * 24 * 60 * 60

\* the users that usersService.findOne finds
Users == {"u1"}
UsersFindOne(userId) == userId \in Users

\* randomBytes(32).toString('hex'): the n-th identifier drawn, never drawn before
TokenId(n) == "t" \o ToString(n)

\* the signed refresh credential of generateTokens: payload {sub, tokenId, type} and its expiry
RefreshCredential(userId, tokenId) ==
    [sub |-> userId, tokenId |-> tokenId, type |-> "refresh", exp |-> now + refreshTokenTTL * 1000,
     signed |-> TRUE]
\* a credential that was not signed with the refresh secret
ForgedCredential ==
    [sub |-> "u1", tokenId |-> "t1", type |-> "refresh", exp |-> 2 * refreshTokenTTL * 1000,
     signed |-> FALSE]

\* no credential in the request body
EmptyCredential == [sub |-> "", tokenId |-> "", type |-> "", exp |-> 0, signed |-> FALSE]

\* the metadata generateTokens stores, as a JSON object
RefreshTokenData(userId, tokenId) == JsObj("userId:" \o userId \o ",tokenId:" \o tokenId)
\* the key generateTokens stores it under and verifyRefreshToken reads, in namespace 'auth'
RefreshTokenKey(tokenId, userId) == "refresh_token:" \o tokenId \o ":" \o userId
\* the key revokeRefreshToken deletes, in the default namespace
RevokeKey(tokenId) == "refresh_token:" \o tokenId

\* jwtService.verify: signature and expiry
JwtVerifies(cred) == cred.signed /\ now < cred.exp

\* !value of JavaScript, for the values of the model
Falsy(value) == value = JsNull \/ value = JsNaN \/ value = JsNum("0") \/ value = JsStr("") \/ value = JsBool("false")

\* verifyRefreshToken returns the token data (TRUE) or null (FALSE)
verifyRefreshToken(cred) ==
    /\ JwtVerifies(cred)
    /\ cred.type = "refresh" /\ cred.tokenId # ""
    /\ ~Falsy(getRet(RefreshTokenKey(cred.tokenId, cred.sub), "auth").v)

\* faulted: a store command of the call failed; mark: the identifiers drawn when it began
IdleCall == [pc |-> "idle", cred |-> ForgedCredential, outcome |-> "none", message |-> "",
             issued |-> ForgedCredential, replay |-> FALSE, faulted |-> FALSE, mark |-> 0]
AuthInFlight(p) == rt[p].pc # "idle"
AuthSlotRank(p) == IF p = "a1" THEN 1 ELSE 2
AuthFreeSlot(p) == ~AuthInFlight(p) /\ \A q \in AuthSlots : ~AuthInFlight(q) => ~(AuthSlotRank(q) < AuthSlotRank(p))

Unauthorized(call, message) == [call EXCEPT !.pc = "done", !.outcome = "unauthorized", !.message = message]

\* generateTokens that stores the record without a TTL of its own
generateTokensDefaultTtl(userId) ==
    /\ ntok < MaxTokens
    /\ store' = setStore(RefreshTokenKey(TokenId(ntok + 1), userId),
                         RefreshTokenData(userId, TokenId(ntok + 1)), NoTtl, NoTtl, "auth")
    /\ ntok' = ntok + 1
    /\ creds' = IF setRet(RefreshTokenKey(TokenId(ntok + 1), userId), "auth").kind = "throw"
                THEN creds ELSE creds \cup {RefreshCredential(userId, TokenId(ntok + 1))}
\* generateTokens as called by login and register: one new record, one new credential
generateTokens(userId) ==
    /\ ntok < MaxTokens
    /\ store' = setStore(RefreshTokenKey(TokenId(ntok + 1), userId),
                         RefreshTokenData(userId, TokenId(ntok + 1)), refreshTokenTTL, NoTtl, "auth")
    /\ ntok' = ntok + 1
    /\ creds' = IF setRet(RefreshTokenKey(TokenId(ntok + 1), userId), "auth").kind = "throw"
                THEN creds ELSE creds \cup {RefreshCredential(userId, TokenId(ntok + 1))}

\* generateTokens of a service constructed with the refresh lifetime ttl
generateTokensFor(userId, ttl) ==
    /\ ntok < MaxTokens
    /\ store' = setStore(RefreshTokenKey(TokenId(ntok + 1), userId),
                         RefreshTokenData(userId, TokenId(ntok + 1)), ttl, NoTtl, "auth")
    /\ ntok' = ntok + 1
    /\ creds' = IF setRet(RefreshTokenKey(TokenId(ntok + 1), userId), "auth").kind = "throw"
                THEN creds ELSE creds \cup {RefreshCredential(userId, TokenId(ntok + 1))}

\* new AuthService(...): the refresh lifetime is parsed once
AuthServiceConstructor ==
    /\ arg.fn = "constructor"
    /\ res = NoRes
    /\ res' = [fn |-> "constructor", refreshTokenTTL |-> parseRefreshExpiresIn(arg.configured)]
    /\ UNCHANGED <<store, now, up, cacheVars, limiterVars, authVars, breakerVars, arg, tasks, tkRet, queue, client>>

login(userId) ==
    /\ UsersFindOne(userId)
    /\ generateTokens(userId)
    /\ rtRet' = IdleCall
    /\ UNCHANGED <<now, up, cacheVars, limiterVars, breakerVars, webVars, rt, rotations>>

\* refreshToken up to the return of verifyRefreshToken
refreshToken(p, cred) ==
    /\ AuthFreeSlot(p)
    /\ LET call == [IdleCall EXCEPT !.cred = cred,
                       !.replay = (cred.tokenId \in DOMAIN rotations /\ rotations[cred.tokenId] > 0)]
       IN  IF cred = EmptyCredential
           THEN /\ rtRet' = Unauthorized(call, "Refresh token is required")
                /\ UNCHANGED rt
           ELSE IF verifyRefreshToken(cred)
           THEN /\ rt' = [rt EXCEPT ![p] = [call EXCEPT !.pc = "findOne"]]
                /\ rtRet' = IdleCall
           ELSE /\ rtRet' = Unauthorized(call, "Invalid or expired refresh token")
                /\ UNCHANGED rt
    /\ UNCHANGED <<store, now, up, cacheVars, limiterVars, breakerVars, webVars, creds, ntok, rotations>>

\* usersService.findOne(tokenData.userId)
refreshTokenFindUser(p) ==
    /\ rt[p].pc = "findOne"
    /\ IF UsersFindOne(rt[p].cred.sub)
       THEN /\ rt' = [rt EXCEPT ![p].pc = "revoke"]
            /\ rtRet' = IdleCall
       ELSE /\ rtRet' = Unauthorized(rt[p], "User not found")
            /\ rt' = [rt EXCEPT ![p] = IdleCall]
    /\ UNCHANGED <<store, now, up, cacheVars, limiterVars, breakerVars, webVars, creds, ntok, rotations>>

\* revokeRefreshToken(tokenId): cacheService.delete(`refresh_token:${tokenId}`)
revokeRefreshToken(tokenId) == IF tokenId # "" THEN deleteStore(RevokeKey(tokenId), NoNs) ELSE store

\* refreshToken: revoke the old token (token rotation)
refreshTokenRevoke(p) ==
    /\ rt[p].pc = "revoke"
    /\ store' = revokeRefreshToken(rt[p].cred.tokenId)
    /\ rt' = [rt EXCEPT ![p].pc = "generate"]
    /\ rtRet' = IdleCall
    /\ UNCHANGED <<now, up, cacheVars, limiterVars, breakerVars, webVars, creds, ntok, rotations>>

\* refreshToken: generate the new tokens and return them; a failed set() is rethrown
refreshTokenGenerate(p) ==
    /\ rt[p].pc = "generate"
    /\ generateTokens(rt[p].cred.sub)
    /\ IF setRet(RefreshTokenKey(TokenId(ntok + 1), rt[p].cred.sub), "auth").kind = "throw"
       THEN /\ rtRet' = [rt[p] EXCEPT !.pc = "done", !.outcome = "error"]
            /\ UNCHANGED rotations
       ELSE /\ rtRet' = [rt[p] EXCEPT !.pc = "done", !.outcome = "ok",
                              !.issued = RefreshCredential(rt[p].cred.sub, TokenId(ntok + 1))]
            /\ rotations' = Put(rotations, rt[p].cred.tokenId,
                                IF rt[p].cred.tokenId \in DOMAIN rotations
                                THEN rotations[rt[p].cred.tokenId] + 1 ELSE 1)
    /\ rt' = [rt EXCEPT ![p] = IdleCall]
    /\ UNCHANGED <<now, up, cacheVars, limiterVars, breakerVars, webVars>>

\* revokeRefreshToken(tokenId) called on its own (logout) with the identifier of a credential
revokeRefreshTokenCall(cred) ==
    /\ store' = revokeRefreshToken(cred.tokenId)
    /\ rtRet' = [IdleCall EXCEPT !.pc = "done", !.cred = cred, !.outcome = "revoked",
                                 !.faulted = ~up, !.mark = ntok]
    /\ UNCHANGED <<now, up, cacheVars, limiterVars, breakerVars, webVars, creds, ntok, rt, rotations>>

\* the pattern of revokeAllUserTokens, scanned in the default namespace
RevokeAllPattern(userId) == "refresh_token:*:" \o userId

\* revokeAllUserTokens(userId) up to the creation of the scan stream
revokeAllUserTokens(p, userId) ==
    /\ AuthFreeSlot(p)
    /\ deleteByPattern(RevokeAllPattern(userId), NoNs)
    /\ rt' = [rt EXCEPT ![p] = [IdleCall EXCEPT !.pc = "revokeAll", !.mark = ntok,
                                    !.cred = [EmptyCredential EXCEPT !.sub = userId]]]
    /\ rtRet' = IdleCall
    /\ UNCHANGED <<limiterVars, breakerVars, webVars, creds, ntok, rotations>>

\* revokeAllUserTokens: one reply of the scan; after the last one the call returns
revokeAllUserTokensData(p, visit, last) ==
    /\ rt[p].pc = "revokeAll"
    /\ scanStreamData(visit, last)
    /\ IF last
       THEN /\ rtRet' = [rt[p] EXCEPT !.pc = "done", !.outcome = "revokedAll"]
            /\ rt' = [rt EXCEPT ![p] = IdleCall]
       ELSE /\ rtRet' = IdleCall
            /\ UNCHANGED rt
    /\ UNCHANGED <<limiterVars, breakerVars, webVars, creds, ntok, rotations>>

\* revokeAllUserTokens: the scan fails, deleteByPattern returns 0 and the call returns
revokeAllUserTokensError(p) ==
    /\ rt[p].pc = "revokeAll"
    /\ scanStreamError
    /\ rtRet' = [rt[p] EXCEPT !.pc = "done", !.outcome = "revokedAll", !.faulted = TRUE]
    /\ rt' = [rt EXCEPT ![p] = IdleCall]
    /\ UNCHANGED <<limiterVars, breakerVars, webVars, creds, ntok, rotations>>

NoRotations == [t \in {} |-> 0]
AuthIdle ==
    /\ creds = {}
    /\ ntok = 0
    /\ rt = [p \in AuthSlots |-> IdleCall]
    /\ rtRet = IdleCall
    /\ rotations = NoRotations

(***************************************************************************)
(* CircuitBreakerService: a registry of opossum breakers.  The breaker is   *)
(* opossum's CircuitBreaker with the options the service passes.            *)
(***************************************************************************)
\* execute calls whose wrapped operation can be in flight together
BreakerSlots == {"c1", "c2"}
BreakerSlotRank(p) == IF p = "c1" THEN 1 ELSE 2
\* execute calls made in one run
MaxCalls == 3

\* configuration read by createCircuitBreaker; 0 is a variable that is not set
CIRCUIT_BREAKER_TIMEOUT == 0
CIRCUIT_BREAKER_ERROR_THRESHOLD == 0
CIRCUIT_BREAKER_RESET_TIMEOUT == 0

\* options the service does not set: opossum's defaults
volumeThreshold == 0
rollingCountTimeout == 10000
rollingCountBuckets == 10

\* absent options; in present options 0 is an absent number, "" an absent enabled flag
NoBreakerOptions == [timeout |-> 0, errorThresholdPercentage |-> 0, resetTimeout |-> 0,
                     enabled |-> "", fallback |-> FALSE]

\* defaultOptions of createCircuitBreaker
defaultOptions ==
    [timeout |-> IF CIRCUIT_BREAKER_TIMEOUT # 0 THEN CIRCUIT_BREAKER_TIMEOUT ELSE 3000,
     errorThresholdPercentage |->
         IF CIRCUIT_BREAKER_ERROR_THRESHOLD # 0 THEN CIRCUIT_BREAKER_ERROR_THRESHOLD ELSE 50,
     resetTimeout |->
         IF CIRCUIT_BREAKER_RESET_TIMEOUT # 0 THEN CIRCUIT_BREAKER_RESET_TIMEOUT ELSE 30000,
     enabled |-> "true"]

\* breakerOptions = {...defaultOptions, ...options}
breakerOptions(options) ==
    [timeout |-> IF options.timeout # 0 THEN options.timeout ELSE defaultOptions.timeout,
     errorThresholdPercentage |->
         IF options.errorThresholdPercentage # 0 THEN options.errorThresholdPercentage
         ELSE defaultOptions.errorThresholdPercentage,
     resetTimeout |->
         IF options.resetTimeout # 0 THEN options.resetTimeout ELSE defaultOptions.resetTimeout,
     enabled |-> IF options.enabled # "" THEN options.enabled ELSE defaultOptions.enabled]

NoTimer == -1
\* new CircuitBreaker(fn, breakerOptions), with the fallback set if options give one.
\* stats: rolling bucket -> the fires and failures counted in it; openedAt: the instant of
\* the latest 'open' event; resetAt: the deadline of the reset timer
NewBreaker(id, fn, options) ==
    [id |-> id, fn |-> fn, options |-> breakerOptions(options), fallback |-> options.fallback,
     state |-> "closed", pendingClose |-> FALSE, createdAt |-> now, openedAt |-> NoTimer,
     resetAt |-> NoTimer,
     stats |-> [b \in {} |-> [fires |-> 0, failures |-> 0]]]

\* createCircuitBreaker that registers a new breaker at every call
createCircuitBreakerAnew(name, fn, options) == Put(breakers, name, NewBreaker(nbreakers + 1, fn, options))
\* the registry after createCircuitBreaker(name, fn, options): an existing breaker is kept
createCircuitBreaker(name, fn, options) ==
    IF name \in DOMAIN breakers THEN breakers
    ELSE Put(breakers, name, NewBreaker(nbreakers + 1, fn, options))

\* the rolling bucket of an instant, and the buckets of the window that ends at an instant
BucketOf(b, t) == (t - b.createdAt) \div (rollingCountTimeout \div rollingCountBuckets)
InWindow(b, t) == {i \in DOMAIN b.stats : i > BucketOf(b, t) - rollingCountBuckets}
\* the breaker with one more event counted in the current bucket
Count(b, event) ==
    LET i == BucketOf(b, now)
        cur == IF i \in DOMAIN b.stats THEN b.stats[i] ELSE [fires |-> 0, failures |-> 0]
    IN  [b EXCEPT !.stats = Put(b.stats, i, [cur EXCEPT ![event] = @ + 1])]
\* breaker.stats: the sum over the window
Stats(b, event) ==
    LET RECURSIVE Sum(_)
        Sum(S) == IF S = {} THEN 0
                  ELSE LET i == CHOOSE x \in S : TRUE IN b.stats[i][event] + Sum(S \ {i})
    IN  Sum(InWindow(b, now))

\* open(): the 'open' event starts the reset timer
Open(b) ==
    IF b.state # "open"
    THEN [b EXCEPT !.state = "open", !.pendingClose = FALSE, !.openedAt = now,
                   !.resetAt = now + b.options.resetTimeout]
    ELSE b
\* close(): clears the reset timer
Close(b) ==
    IF b.state # "closed"
    THEN [b EXCEPT !.state = "closed", !.pendingClose = FALSE, !.resetAt = NoTimer]
    ELSE b

\* a breaker that rejects only while a half-open trial is under way
ShortCircuitsInTrial(b) == b.state = "halfOpen" /\ ~b.pendingClose
\* the breaker rejects the call: !this.closed && !this.pendingClose
ShortCircuits(b) == b.state # "closed" /\ ~b.pendingClose

\* fail(): counts the failure and opens on the error rate of the window, or in half-open
Fail(b) ==
    LET c == Count(b, "failures")
    IN  IF Stats(c, "fires") < volumeThreshold /\ c.state # "halfOpen" THEN c
        ELSE IF Stats(c, "failures") * 100 > c.options.errorThresholdPercentage * Stats(c, "fires")
                \/ c.state = "halfOpen"
        THEN Open(c) ELSE c
\* the 'success' handler: a success while half-open closes the breaker
Succeed(b) == IF b.state = "halfOpen" THEN Close(b) ELSE b

IdleExec == [pc |-> "idle", name |-> "", id |-> 0, fn |-> "", start |-> 0, stateAtCall |-> "",
             trial |-> FALSE, invoked |-> FALSE, outcome |-> "none", message |-> ""]
Running(p) == cb[p].pc # "idle"
BreakerFreeSlot(p) ==
    ~Running(p) /\ \A q \in BreakerSlots : ~Running(q) => ~(BreakerSlotRank(q) < BreakerSlotRank(p))

\* timers that are due: the reset timer of an open breaker, the timeout of a running call
ResetDue(name) == breakers[name].state = "open" /\ breakers[name].resetAt <= now
TimeoutAt(p) == cb[p].start + breakers[cb[p].name].options.timeout
TimeoutDue(p) == Running(p) /\ breakers[cb[p].name].options.enabled # "false" /\ TimeoutAt(p) <= now
DueTimers ==
    {breakers[n].resetAt : n \in {m \in DOMAIN breakers : ResetDue(m)}}
        \cup {TimeoutAt(p) : p \in {q \in BreakerSlots : TimeoutDue(q)}}
\* timer callbacks run in the order of their deadlines, before anything that comes later
NoTimerDue == DueTimers = {}
FirstDue(t) == \A u \in DueTimers : t <= u

\* how a call that the breaker does not let succeed ends: the fallback's value if the breaker
\* has a fallback, else the error
FallbackOr(call, b, message) ==
    IF b.fallback THEN [call EXCEPT !.pc = "done", !.outcome = "fallback"]
    ELSE [call EXCEPT !.pc = "done", !.outcome = "error", !.message = message]

\* execute(name, fn, options): createCircuitBreaker, then breaker.fire() up to the call of
\* the wrapped operation
execute(p, name, fn, options) ==
    /\ BreakerFreeSlot(p)
    /\ ncalls < MaxCalls
    /\ NoTimerDue
    /\ LET registry == createCircuitBreaker(name, fn, options)
           b == Count(registry[name], "fires")
           call == [IdleExec EXCEPT !.name = name, !.id = b.id, !.fn = b.fn, !.start = now,
                                    !.stateAtCall = b.state]
       IN  /\ nbreakers' = IF b.id > nbreakers THEN b.id ELSE nbreakers
           /\ IF b.options.enabled = "false"
              THEN /\ breakers' = Put(registry, name, b)
                   /\ cb' = [cb EXCEPT ![p] = [call EXCEPT !.pc = "direct", !.invoked = TRUE]]
                   /\ cbRet' = IdleExec
              ELSE IF ShortCircuits(b)
              THEN /\ breakers' = Put(registry, name, b)
                   /\ cbRet' = FallbackOr(call, b, "Breaker is open")
                   /\ UNCHANGED cb
              ELSE /\ breakers' = Put(registry, name, [b EXCEPT !.pendingClose = FALSE])
                   /\ cb' = [cb EXCEPT ![p] = [call EXCEPT !.pc = "running", !.invoked = TRUE,
                                                           !.trial = (b.state = "halfOpen")]]
                   /\ cbRet' = IdleExec
    /\ ncalls' = ncalls + 1
    /\ UNCHANGED <<store, now, up, cacheVars, limiterVars, authVars, webVars>>

\* the wrapped operation resolves before the timeout: 'success', and the result is returned
operationResolves(p) ==
    /\ Running(p)
    /\ NoTimerDue
    /\ breakers' = IF cb[p].pc = "direct" THEN breakers
                   ELSE [breakers EXCEPT ![cb[p].name] = Succeed(@)]
    /\ cbRet' = [cb[p] EXCEPT !.pc = "done", !.outcome = "result"]
    /\ cb' = [cb EXCEPT ![p] = IdleExec]
    /\ UNCHANGED <<store, now, up, cacheVars, limiterVars, authVars, webVars, nbreakers, ncalls>>

\* the wrapped operation rejects before the timeout: handleError
operationRejects(p) ==
    /\ Running(p)
    /\ NoTimerDue
    /\ IF cb[p].pc = "direct"
       THEN /\ cbRet' = [cb[p] EXCEPT !.pc = "done", !.outcome = "error", !.message = "operation failed"]
            /\ UNCHANGED breakers
       ELSE /\ breakers' = [breakers EXCEPT ![cb[p].name] = Fail(@)]
            /\ cbRet' = FallbackOr(cb[p], breakers[cb[p].name], "operation failed")
    /\ cb' = [cb EXCEPT ![p] = IdleExec]
    /\ UNCHANGED <<store, now, up, cacheVars, limiterVars, authVars, webVars, nbreakers, ncalls>>

\* options.timeout ms after the call: 'timeout', handleError; a later result is ignored
callTimesOut(p) ==
    /\ TimeoutDue(p)
    /\ FirstDue(TimeoutAt(p))
    /\ breakers' = [breakers EXCEPT ![cb[p].name] = Fail(@)]
    /\ cbRet' = FallbackOr(cb[p], breakers[cb[p].name], "Timed out")
    /\ cb' = [cb EXCEPT ![p] = IdleExec]
    /\ UNCHANGED <<store, now, up, cacheVars, limiterVars, authVars, webVars, nbreakers, ncalls>>

\* options.resetTimeout ms after 'open': the breaker goes half-open and lets one call through
resetTimer(name) ==
    /\ ResetDue(name)
    /\ FirstDue(breakers[name].resetAt)
    /\ breakers' = [breakers EXCEPT ![name] =
                       [@ EXCEPT !.state = "halfOpen", !.pendingClose = TRUE, !.resetAt = NoTimer]]
    /\ cbRet' = IdleExec
    /\ UNCHANGED <<store, now, up, cacheVars, limiterVars, authVars, webVars, nbreakers, cb, ncalls>>

\* the buckets of the rolling window at a later instant: older buckets are dropped
Rotate(b, t) == [b EXCEPT !.stats = [i \in InWindow(b, t) |-> b.stats[i]]]

BreakerIdle ==
    /\ breakers =[n \in {} |-> NewBreaker(0, "", NoBreakerOptions)]
    /\ nbreakers = 0
    /\ cb = [p \in BreakerSlots |-> IdleExec]
    /\ cbRet = IdleExec
    /\ ncalls = 0

(***************************************************************************)
(* HttpExceptionFilter.  A JavaScript object is a function from its field   *)
(* names to their values.                                                   *)
(***************************************************************************)

EmptyObject == [f \in {} |-> ""]
\* the object without the fields (delete object.field)
Without(object, fields) == [f \in DOMAIN object \ fields |-> object[f]]
\* the object with the field set
With(object, field, value) ==
    [f \in DOMAIN object \cup {field} |-> IF f = field THEN value ELSE object[f]]

\* this.isDevelopment
isDevelopment(nodeEnv) == nodeEnv = "development"

\* exception.message of an HttpException built from a response
ExceptionMessage(exceptionResponse) ==
    IF exceptionResponse.type = "string" THEN exceptionResponse.text
    ELSE IF "message" \in DOMAIN exceptionResponse.object THEN exceptionResponse.object["message"]
    ELSE "Http Exception"
\* errorMessage: the response itself if a string, else its message || exception.message
errorMessage(exceptionResponse) ==
    IF exceptionResponse.type = "string" THEN exceptionResponse.text
    ELSE IF "message" \in DOMAIN exceptionResponse.object
            /\ exceptionResponse.object["message"] # ""
    THEN exceptionResponse.object["message"]
    ELSE ExceptionMessage(exceptionResponse)

\* safeResponse: the copy of the response object without the sensitive fields, and outside
\* development without stack and trace
safeResponse(object, nodeEnv) ==
    LET kept == Without(object, {"password", "token", "secret", "apiKey", "ip"})
    IN  IF ~isDevelopment(nodeEnv) THEN Without(kept, {"stack", "trace"}) ELSE kept

\* errorResponse before the sensitive fields are removed: stack and details are set in
\* development for a server error
errorResponse(nodeEnv, status, exceptionResponse, url) ==
    LET base == [f \in {"success", "statusCode", "message", "timestamp", "path"} |->
                    CASE f = "success" -> "false"
                      [] f = "statusCode" -> ToString(status)
                      [] f = "message" -> errorMessage(exceptionResponse)
                      [] f = "timestamp" -> ToString(now)
                      [] f = "path" -> url]
    IN  IF isDevelopment(nodeEnv) /\ status >= 500
        THEN IF exceptionResponse.type = "object"
             THEN With(With(base, "stack", "Error: at"), "details", exceptionResponse.object)
             ELSE With(base, "stack", "Error: at")
        ELSE base

\* the body that catch(exception, host) sends with response.status(status).json
HttpExceptionFilterBody(nodeEnv, status, exceptionResponse, url) ==
    LET body == errorResponse(nodeEnv, status, exceptionResponse, url)
    IN  IF exceptionResponse.type = "object"
        THEN LET safe == safeResponse(exceptionResponse.object, nodeEnv)
             IN  IF DOMAIN safe # {} /\ "details" \notin DOMAIN body
                 THEN With(body, "details", safe) ELSE body
        ELSE body

\* catch(exception, host) for the exception and request under observation
HttpExceptionFilterCatch ==
    /\ arg.fn = "catch"
    /\ res = NoRes
    /\ res' = [fn |-> "catch", status |-> arg.status,
               body |-> HttpExceptionFilterBody(arg.nodeEnv, arg.status, arg.response, arg.url)]
    /\ UNCHANGED <<store, now, up, cacheVars, limiterVars, authVars, breakerVars, arg, tasks, tkRet, queue, client>>

(***************************************************************************)
(* The Redis client RedisCacheService constructs, with lazyConnect, the     *)
(* retryStrategy and maxRetriesPerRequest it passes.  The client reconnects *)
(* after every close of the connection, waiting retryStrategy(attempt) ms   *)
(* before the attempt; a command that cannot be served waits in the client, *)
(* and every (maxRetriesPerRequest + 1)th attempt in a row ends all waiting *)
(* commands with MaxRetriesPerRequestError.  pending holds, per waiting     *)
(* command, the number of closes it has waited through.                     *)
(***************************************************************************)
maxRetriesPerRequest == 3
NoEnded == [outcome |-> "none", n |-> 0, waited |-> 0]
IdleClient == [status |-> "wait", retryAttempts |-> 0, delay |-> 0, pending |-> <<>>, ended |-> NoEnded]

\* the largest number of closes one of the waiting commands has waited through
RECURSIVE Waited(_)
Waited(pending) ==
    IF pending = <<>> THEN 0 ELSE Max(Head(pending), Waited(Tail(pending)))
\* how the waiting commands end, if there are any
Ended(outcome, pending) ==
    IF pending = <<>> THEN NoEnded
    ELSE [outcome |-> outcome, n |-> Len(pending), waited |-> Waited(pending)]

\* a retryStrategy without the cap
retryStrategyUncapped(times) == times * 50
\* retryStrategy: (times) => Math.min(times * 50, 2000)
retryStrategy(times) == IF times * 50 <= 2000 THEN times * 50 ELSE 2000

\* onModuleInit: client.connect()
onModuleInit ==
    /\ client.status = "wait"
    /\ client' = [client EXCEPT !.status = "connecting", !.ended = NoEnded]

\* the connection is established: the attempts start over and the waiting commands are
\* sent and answered
clientReady ==
    /\ client.status = "connecting" /\ up
    /\ client' = [client EXCEPT !.status = "ready", !.retryAttempts = 0, !.delay = 0,
                                !.pending = <<>>, !.ended = Ended("reply", client.pending)]

\* the connection attempt fails, or the connection breaks: the client schedules attempt
\* retryAttempts + 1 after the delay of retryStrategy, and ends the waiting commands when
\* the attempt is a multiple of maxRetriesPerRequest + 1
clientClose ==
    /\ client.status \in {"connecting", "ready"} /\ ~up
    /\ client' =
          IF (client.retryAttempts + 1) % (maxRetriesPerRequest + 1) = 0
          THEN [client EXCEPT !.status = "reconnecting", !.retryAttempts = @ + 1,
                              !.delay = retryStrategy(client.retryAttempts + 1),
                              !.pending = <<>>,
                              !.ended = Ended("MaxRetriesPerRequestError", client.pending)]
          ELSE [client EXCEPT !.status = "reconnecting", !.retryAttempts = @ + 1,
                              !.delay = retryStrategy(client.retryAttempts + 1),
                              !.pending = [i \in 1..Len(client.pending) |-> client.pending[i] + 1],
                              !.ended = NoEnded]

\* the connection works and the store answers the commands that waited
commandReply ==
    /\ client.status = "ready" /\ up /\ client.pending # <<>>
    /\ client' = [client EXCEPT !.pending = <<>>, !.ended = Ended("reply", client.pending)]

\* the delay has passed: the client connects again
clientReconnect ==
    /\ client.status = "reconnecting"
    /\ client' = [client EXCEPT !.status = "connecting", !.ended = NoEnded]

\* a store operation sends its command: served at once over a working connection, else
\* it waits in the client (a client that never connected connects now)
sendCommand ==
    client' =
        IF client.status = "ready" /\ up
        THEN [client EXCEPT !.pending = <<>>, !.ended = Ended("reply", Append(client.pending, 0))]
        ELSE [client EXCEPT !.status = IF @ = "wait" THEN "connecting" ELSE @,
                            !.pending = Append(@, 0), !.ended = NoEnded]

(***************************************************************************)
(* TasksService over the tasks repository.                                  *)
(***************************************************************************)
NoTasks == [id \in {} |-> [id |-> "", status |-> "", userId |-> ""]]
IdleTaskCall == [pc |-> "idle", op |-> "none", id |-> "", outcome |-> "none", message |-> "",
                 task |-> [id |-> "", status |-> "", userId |-> ""]]

\* tasksRepository.findOne({where: {id}}): the task, or null (FALSE) when there is none
RepositoryFinds(id) == id \in DOMAIN tasks

\* findOne that hands the repository's null to the caller
findOneOrNull(id) ==
    /\ tkRet' = IF RepositoryFinds(id)
                THEN [IdleTaskCall EXCEPT !.pc = "done", !.op = "findOne", !.id = id,
                                          !.outcome = "task", !.task = tasks[id]]
                ELSE [IdleTaskCall EXCEPT !.pc = "done", !.op = "findOne", !.id = id,
                                          !.outcome = "null"]
    /\ UNCHANGED <<store, now, up, cacheVars, limiterVars, authVars, breakerVars, arg, res, tasks, queue, client>>
\* findOne(id): the task, or NotFoundException(`Task with ID ${id} not found`)
findOne(id) ==
    /\ tkRet' = IF RepositoryFinds(id)
                THEN [IdleTaskCall EXCEPT !.pc = "done", !.op = "findOne", !.id = id,
                                          !.outcome = "task", !.task = tasks[id]]
                ELSE [IdleTaskCall EXCEPT !.pc = "done", !.op = "findOne", !.id = id,
                                          !.outcome = "NotFoundException",
                                          !.message = "Task with ID " \o id \o " not found"]
    /\ UNCHANGED <<store, now, up, cacheVars, limiterVars, authVars, breakerVars, arg, res, tasks, queue, client>>

\* the job create() and update() add to the queue for a saved task
Job(task) == [name |-> "task-status-update", taskId |-> task.id, status |-> task.status]
NoQueue == <<>>

\* tasksRepository.create(createTaskDto) saved under the id the database generates
createdTask(createTaskDto, id) ==
    [id |-> id, status |-> createTaskDto.status, userId |-> createTaskDto.userId]

\* create() whose inner catch rethrows the queue's failure: the table after it
createTasksRethrowing(createTaskDto, id, saves, adds, commits) ==
    IF saves /\ adds /\ commits THEN Put(tasks, id, createdTask(createTaskDto, id)) ELSE tasks
\* the table after create(): the saved task is in it when the transaction committed; a
\* failed save or commit is caught, rolled back and rethrown
createTasks(createTaskDto, id, saves, adds, commits) ==
    IF saves /\ commits THEN Put(tasks, id, createdTask(createTaskDto, id)) ELSE tasks
\* the queue after create(): taskQueue.add runs after the save and before the commit
createQueue(createTaskDto, id, saves, adds, commits) ==
    IF saves /\ adds THEN Append(queue, Job(createdTask(createTaskDto, id))) ELSE queue
\* what create() gives its caller: the saved task, or the error of the save or the commit
createRet(createTaskDto, id, saves, adds, commits) ==
    IF saves /\ commits
    THEN [IdleTaskCall EXCEPT !.pc = "done", !.op = "create", !.id = id,
                              !.outcome = "task", !.task = createdTask(createTaskDto, id)]
    ELSE [IdleTaskCall EXCEPT !.pc = "done", !.op = "create", !.id = id, !.outcome = "error"]

\* create(createTaskDto), with the id the database generates and with what the save, the
\* taskQueue.add and the commit do: TRUE for resolving, FALSE for rejecting
create(createTaskDto, id, saves, adds, commits) ==
    /\ tasks' = createTasks(createTaskDto, id, saves, adds, commits)
    /\ queue' = createQueue(createTaskDto, id, saves, adds, commits)
    /\ tkRet' = createRet(createTaskDto, id, saves, adds, commits)
    /\ UNCHANGED <<store, now, up, cacheVars, limiterVars, authVars, breakerVars, arg, res, client>>

\* an UpdateTaskDto field that is not given
NotGiven == ""
\* manager.merge(Task, task, updateTaskDto): the given fields replace the task's
merge(task, updateTaskDto) ==
    [task EXCEPT !.status = IF updateTaskDto.status = NotGiven THEN @ ELSE updateTaskDto.status]
\* the status changed: update() adds a job
statusChanged(id, updateTaskDto) == tasks[id].status # merge(tasks[id], updateTaskDto).status

\* the table after update(): the merged task is in it when the task was found and the
\* transaction committed
updateTasks(id, updateTaskDto, saves, adds, commits) ==
    IF RepositoryFinds(id) /\ saves /\ commits
    THEN Put(tasks, id, merge(tasks[id], updateTaskDto))
    ELSE tasks
\* the queue after update(): taskQueue.add runs when the save changed the status, before
\* the commit
updateQueue(id, updateTaskDto, saves, adds, commits) ==
    IF RepositoryFinds(id) /\ saves /\ statusChanged(id, updateTaskDto) /\ adds
    THEN Append(queue, Job(merge(tasks[id], updateTaskDto)))
    ELSE queue
\* what update() gives its caller: the updated task, NotFoundException, or the error of
\* the save or the commit
updateRet(id, updateTaskDto, saves, adds, commits) ==
    IF ~RepositoryFinds(id)
    THEN [IdleTaskCall EXCEPT !.pc = "done", !.op = "update", !.id = id,
                              !.outcome = "NotFoundException",
                              !.message = "Task with ID " \o id \o " not found"]
    ELSE IF saves /\ commits
         THEN [IdleTaskCall EXCEPT !.pc = "done", !.op = "update", !.id = id,
                                   !.outcome = "task", !.task = merge(tasks[id], updateTaskDto)]
         ELSE [IdleTaskCall EXCEPT !.pc = "done", !.op = "update", !.id = id, !.outcome = "error"]

\* update(id, updateTaskDto), with what the save, the taskQueue.add and the commit do
update(id, updateTaskDto, saves, adds, commits) ==
    /\ tasks' = updateTasks(id, updateTaskDto, saves, adds, commits)
    /\ queue' = updateQueue(id, updateTaskDto, saves, adds, commits)
    /\ tkRet' = updateRet(id, updateTaskDto, saves, adds, commits)
    /\ UNCHANGED <<store, now, up, cacheVars, limiterVars, authVars, breakerVars, arg, res, client>>

\* the keys generated so far for the requests under observation
KeysSoFar == IF res = NoRes THEN <<>> ELSE res.keys
\* the key generator applied to the next request under observation
RateLimitGuardKey ==
    /\ arg.fn = "defaultKeyGenerator"
    /\ Len(KeysSoFar) < Len(arg.requests)
    /\ res' = [fn |-> "defaultKeyGenerator",
               keys |-> Append(KeysSoFar, defaultKeyGenerator(arg.requests[Len(KeysSoFar) + 1]))]
    /\ UNCHANGED <<store, now, up, cacheVars, limiterVars, authVars, breakerVars, arg, tasks, tkRet, queue, client>>

WebIdle ==
    /\ arg = NoArg
    /\ res = NoRes
    /\ tasks = NoTasks
    /\ tkRet = IdleTaskCall
    /\ queue = NoQueue
    /\ client = IdleClient

(***************************************************************************)
(* Environment: the clock and the connection to the store.                  *)
(***************************************************************************)
Tick(t) ==
    /\ t > now
    /\ now' = t
    /\ store' = Expire(store, t)
    /\ ret' = NoRet
    /\ UNCHANGED <<up, written, scan>>

StoreDown == up /\ up' = FALSE /\ ret' = NoRet /\ UNCHANGED <<store, now, written, scan>>
StoreUp == ~up /\ up' = TRUE /\ ret' = NoRet /\ UNCHANGED <<store, now, written, scan>>

(***************************************************************************)
(* Inputs of the cache specification.                                       *)
(***************************************************************************)
CacheKeys == {"k"}
CacheNamespaces == {NoNs, "auth"}
CacheValues == {JsStr("v"), JsNum("1"), JsNaN}
CacheTtls == {NoTtl, 1}
CacheOptTtls == {NoTtl, 2}
RawPayloads == {"not json"}


EmptyStore == [k \in {} |-> StringEntry("", NoExpiry)]
NoWritten == [k \in {} |-> [v |-> JsNull, ttlSeconds |-> 0, optTtl |-> 0, at |-> 0]]

LimiterIdle ==
    /\ meta = NoMeta
    /\ rl = [p \in Slots |-> IdleCheck]
    /\ rlRet = IdleCheck
    /\ admitted = NoAdmitted
    /\ lastReq = NoLastReq
    /\ nreq = 0
    /\ rlRaced = FALSE
    /\ rlFault = FALSE
    /\ rlSlow = FALSE

Init ==
    /\ store = EmptyStore
    /\ now = 0
    /\ up = TRUE
    /\ ret = NoRet
    /\ written = NoWritten
    /\ scan = IdleScan
    /\ LimiterIdle
    /\ AuthIdle
    /\ BreakerIdle
    /\ WebIdle

CacheSet == \E k \in CacheKeys, v \in CacheValues, t \in CacheTtls, o \in CacheOptTtls, ns \in CacheNamespaces :
                set(k, v, t, o, ns) /\ UNCHANGED <<limiterVars, authVars, breakerVars, webVars>>
CacheGet == \E k \in CacheKeys, ns \in CacheNamespaces : get(k, ns) /\ UNCHANGED <<limiterVars, authVars, breakerVars, webVars>>
CacheDelete == \E k \in CacheKeys, ns \in CacheNamespaces : delete(k, ns) /\ UNCHANGED <<limiterVars, authVars, breakerVars, webVars>>
CacheRawSet == \E k \in CacheKeys, raw \in RawPayloads :
                getClientSet(buildKey(k, NoNs), raw) /\ UNCHANGED <<limiterVars, authVars, breakerVars, webVars>>
CacheRawZadd == \E k \in CacheKeys : getClientZadd(buildKey(k, NoNs), 0) /\ UNCHANGED <<limiterVars, authVars, breakerVars, webVars>>
CacheTick == \E t \in CacheInstants : Tick(t) /\ UNCHANGED <<limiterVars, authVars, breakerVars, webVars>>
CacheStoreDown == StoreDown /\ UNCHANGED <<limiterVars, authVars, breakerVars, webVars>>
CacheStoreUp == StoreUp /\ UNCHANGED <<limiterVars, authVars, breakerVars, webVars>>

Next ==
    \/ CacheSet
    \/ CacheGet
    \/ CacheDelete
    \/ CacheRawSet
    \/ CacheRawZadd
    \/ CacheTick
    \/ CacheStoreDown
    \/ CacheStoreUp

Spec == Init /\ [][Next]_vars

(***************************************************************************)
(* The rate limiter specification: concurrent checks against one store.     *)
(***************************************************************************)
\* the instants (ms) at which the limiter specification observes the clock
LimiterInstants == {10000, 10500, 11000, 11500, 12000}

LimiterInit ==
    /\ store = EmptyStore
    /\ now = 10000
    /\ up = TRUE
    /\ ret = NoRet
    /\ written = NoWritten
    /\ scan = IdleScan
    /\ meta \in RateLimitMetas
    /\ rl = [p \in Slots |-> IdleCheck]
    /\ rlRet = IdleCheck
    /\ admitted = NoAdmitted
    /\ lastReq = NoLastReq
    /\ nreq = 0
    /\ rlRaced = FALSE
    /\ rlFault = FALSE
    /\ rlSlow = FALSE
    /\ AuthIdle
    /\ BreakerIdle
    /\ WebIdle

LimiterRequest == \E p \in Slots, r \in Requests : canActivate(p, r)
LimiterEvict == \E p \in Slots : getCurrentCountEvict(p)
LimiterCard == \E p \in Slots : getCurrentCountCard(p)
LimiterReject == \E p \in Slots : canActivateReject(p)
LimiterZadd == \E p \in Slots : incrementCountZadd(p)
LimiterExpire == \E p \in Slots : incrementCountExpire(p)
\* the environment steps leave the limiter as it is and end the observation of a finished check
LimiterStutter ==
    rlRet' = IdleCheck
    /\ UNCHANGED <<meta, rl, admitted, lastReq, nreq, rlRaced, rlFault, authVars, breakerVars, webVars>>
LimiterTick ==
    /\ \E t \in LimiterInstants : Tick(t)
    /\ rlSlow' = (rlSlow \/ \E p \in Slots : InFlight(p))
    /\ LimiterStutter
LimiterStoreDown == StoreDown /\ LimiterStutter /\ UNCHANGED rlSlow
LimiterStoreUp == StoreUp /\ LimiterStutter /\ UNCHANGED rlSlow

LimiterNext ==
    \/ LimiterRequest
    \/ LimiterEvict
    \/ LimiterCard
    \/ LimiterReject
    \/ LimiterZadd
    \/ LimiterExpire
    \/ LimiterTick
    \/ LimiterStoreDown
    \/ LimiterStoreUp

LimiterSpec == LimiterInit /\ [][LimiterNext]_vars

(***************************************************************************)
(* The window specification: requests of one key on a healthy store, at     *)
(* instants that include the edge of the window.                            *)
(***************************************************************************)
WindowMetas == {[handler |-> Options(2, 1500, ""), controller |-> NoOptions]}
WindowInstants == {10000, 10500, 11500, 12000, 13000}

WindowInit ==
    /\ store = EmptyStore
    /\ now = 10000
    /\ up = TRUE
    /\ ret = NoRet
    /\ written = NoWritten
    /\ scan = IdleScan
    /\ meta \in WindowMetas
    /\ rl = [p \in Slots |-> IdleCheck]
    /\ rlRet = IdleCheck
    /\ admitted = NoAdmitted
    /\ lastReq = NoLastReq
    /\ nreq = 0
    /\ rlRaced = FALSE
    /\ rlFault = FALSE
    /\ rlSlow = FALSE
    /\ AuthIdle
    /\ BreakerIdle
    /\ WebIdle

WindowTick ==
    /\ \E t \in WindowInstants : Tick(t)
    /\ rlSlow' = (rlSlow \/ \E p \in Slots : InFlight(p))
    /\ LimiterStutter

WindowNext ==
    \/ LimiterRequest
    \/ LimiterEvict
    \/ LimiterCard
    \/ LimiterReject
    \/ LimiterZadd
    \/ LimiterExpire
    \/ WindowTick

WindowSpec == WindowInit /\ [][WindowNext]_vars

(***************************************************************************)
(* The configuration specification: requests to operations decorated in     *)
(* every way.                                                               *)
(***************************************************************************)
ConfiguredOptions ==
    {Options(l, w, g) : l \in {0, 1, 3}, w \in {0, 1500}, g \in {"", "customKeyGenerator"}}
ConfigMetas ==
    {[handler |-> h, controller |-> c] :
        h \in ConfiguredOptions \cup {NoOptions}, c \in ConfiguredOptions \cup {NoOptions}}

ConfigInit ==
    /\ store = EmptyStore
    /\ now = 10000
    /\ up = TRUE
    /\ ret = NoRet
    /\ written = NoWritten
    /\ scan = IdleScan
    /\ meta \in ConfigMetas
    /\ rl = [p \in Slots |-> IdleCheck]
    /\ rlRet = IdleCheck
    /\ admitted = NoAdmitted
    /\ lastReq = NoLastReq
    /\ nreq = 0
    /\ rlRaced = FALSE
    /\ rlFault = FALSE
    /\ rlSlow = FALSE
    /\ AuthIdle
    /\ BreakerIdle
    /\ WebIdle

ConfigRequest == \E p \in Slots, r \in GuardedRequests : canActivate(p, r)

ConfigNext == ConfigRequest

ConfigSpec == ConfigInit /\ [][ConfigNext]_vars

(***************************************************************************)
(* The authentication specification: logins and concurrent refreshes.       *)
(***************************************************************************)
\* the instants (ms) at which the authentication specification observes the clock
AuthInstants == {0, 1000, refreshTokenTTL * 1000, refreshTokenTTL * 1000 + 1000}

AuthInit ==
    /\ store = EmptyStore
    /\ now = 0
    /\ up = TRUE
    /\ ret = NoRet
    /\ written = NoWritten
    /\ scan = IdleScan
    /\ LimiterIdle
    /\ AuthIdle
    /\ BreakerIdle
    /\ WebIdle

AuthStutter == rtRet' = IdleCall /\ UNCHANGED <<creds, ntok, rt, rotations, limiterVars, breakerVars, webVars>>
AuthLogin == \E u \in Users : login(u)
AuthRefresh == \E p \in AuthSlots, c \in creds \cup {ForgedCredential, EmptyCredential} : refreshToken(p, c)
AuthFindUser == \E p \in AuthSlots : refreshTokenFindUser(p)
AuthRevoke == \E p \in AuthSlots : refreshTokenRevoke(p)
AuthGenerate == \E p \in AuthSlots : refreshTokenGenerate(p)
AuthTick == (\E t \in AuthInstants : Tick(t)) /\ AuthStutter
AuthStoreDown == StoreDown /\ AuthStutter
AuthStoreUp == StoreUp /\ AuthStutter

AuthNext ==
    \/ AuthLogin
    \/ AuthRefresh
    \/ AuthFindUser
    \/ AuthRevoke
    \/ AuthGenerate
    \/ AuthTick
    \/ AuthStoreDown
    \/ AuthStoreUp

AuthSpec == AuthInit /\ [][AuthNext]_vars

(***************************************************************************)
(* The revocation specification: logins, refreshes, logouts and             *)
(* revocations of all the tokens of a user.                                 *)
(***************************************************************************)
\* the instants (ms) at which the revocation specification observes the clock
RevokeInstants == {0, 1000}
\* the replies of a scan: no key, or every key of the store
RevokeScanReplies == {{}, DOMAIN store}

RevokeRefresh == \E p \in AuthSlots, c \in creds : refreshToken(p, c)
RevokeLogout == \E c \in creds : revokeRefreshTokenCall(c)
RevokeAll == \E p \in AuthSlots, u \in Users : revokeAllUserTokens(p, u)
RevokeAllData == \E p \in AuthSlots, visit \in RevokeScanReplies, last \in BOOLEAN :
                     revokeAllUserTokensData(p, visit, last)
RevokeAllError == \E p \in AuthSlots : revokeAllUserTokensError(p)
RevokeTick == (\E t \in RevokeInstants : Tick(t)) /\ AuthStutter

RevokeNext ==
    \/ AuthLogin
    \/ RevokeRefresh
    \/ AuthFindUser
    \/ AuthRevoke
    \/ AuthGenerate
    \/ RevokeLogout
    \/ RevokeAll
    \/ RevokeAllData
    \/ RevokeAllError
    \/ RevokeTick
    \/ AuthStoreDown
    \/ AuthStoreUp

RevokeSpec == AuthInit /\ [][RevokeNext]_vars

(***************************************************************************)
(* The namespace specification: every RedisCacheService operation, under    *)
(* namespaces and keys that contain the separator.                          *)
(***************************************************************************)
NsNamespaces == {NoNs, "app:b"}
NsKeys == {"k", "b:k"}
NsValues == {JsStr("v")}
NsPatterns == {"*", "k"}
NsKeyLists == {<<"k">>, <<"b:k", "k">>}
\* the instants (ms) at which the namespace specification observes the clock
NsInstants == {0, defaultTTL * 1000}

NsSet == \E k \in NsKeys, v \in NsValues, ns \in NsNamespaces :
             set(k, v, NoTtl, NoTtl, ns) /\ UNCHANGED <<limiterVars, authVars, breakerVars, webVars>>
NsGet == \E k \in NsKeys, ns \in NsNamespaces : get(k, ns) /\ UNCHANGED <<limiterVars, authVars, breakerVars, webVars>>
NsHas == \E k \in NsKeys, ns \in NsNamespaces : has(k, ns) /\ UNCHANGED <<limiterVars, authVars, breakerVars, webVars>>
NsMget == \E ks \in NsKeyLists, ns \in NsNamespaces : mget(ks, ns) /\ UNCHANGED <<limiterVars, authVars, breakerVars, webVars>>
NsDelete == \E k \in NsKeys, ns \in NsNamespaces : delete(k, ns) /\ UNCHANGED <<limiterVars, authVars, breakerVars, webVars>>
NsDeleteByPattern == \E pat \in NsPatterns, ns \in NsNamespaces :
                         deleteByPattern(pat, ns) /\ UNCHANGED <<limiterVars, authVars, breakerVars, webVars>>
NsClear == \E ns \in NsNamespaces : clear(ns) /\ UNCHANGED <<limiterVars, authVars, breakerVars, webVars>>
NsScanData == \E visit \in SUBSET DOMAIN store, last \in BOOLEAN :
                  scanStreamData(visit, last) /\ UNCHANGED <<limiterVars, authVars, breakerVars, webVars>>
NsScanError == scanStreamError /\ UNCHANGED <<limiterVars, authVars, breakerVars, webVars>>
NsTick == \E t \in NsInstants : Tick(t) /\ UNCHANGED <<limiterVars, authVars, breakerVars, webVars>>
NsStoreDown == StoreDown /\ UNCHANGED <<limiterVars, authVars, breakerVars, webVars>>
NsStoreUp == StoreUp /\ UNCHANGED <<limiterVars, authVars, breakerVars, webVars>>

NsNext ==
    \/ NsSet
    \/ NsGet
    \/ NsHas
    \/ NsMget
    \/ NsDelete
    \/ NsDeleteByPattern
    \/ NsClear
    \/ NsScanData
    \/ NsScanError
    \/ NsTick
    \/ NsStoreDown
    \/ NsStoreUp

NamespaceSpec == Init /\ [][NsNext]_vars

(***************************************************************************)
(* The bulk-write specification: mset() of lists of pairs with and without  *)
(* a ttl, read back by get() while the clock runs and the store comes and   *)
(* goes.                                                                    *)
(***************************************************************************)
MsetKeys == {"k", "j"}
MsetNamespaces == {NoNs, "auth"}
Pair(key, value, ttl) == [key |-> key, value |-> value, ttl |-> ttl]
\* lists of one pair and of two pairs with different keys, with and without a ttl
MsetPairLists ==
    { <<Pair("k", JsStr("v"), NoTtl)>>,
      <<Pair("k", JsNum("1"), 1)>>,
      <<Pair("k", JsStr("v"), 1), Pair("j", JsNum("1"), NoTtl)>> }
\* the instants (ms) at which the bulk-write specification observes the clock
MsetInstants == {0, 500, 1000}

MsetWrite == \E ps \in MsetPairLists, ns \in MsetNamespaces :
                 mset(ps, ns) /\ UNCHANGED <<limiterVars, authVars, breakerVars, webVars>>
MsetGet == \E k \in MsetKeys, ns \in MsetNamespaces : get(k, ns) /\ UNCHANGED <<limiterVars, authVars, breakerVars, webVars>>
MsetTick == \E t \in MsetInstants : Tick(t) /\ UNCHANGED <<limiterVars, authVars, breakerVars, webVars>>
MsetStoreDown == StoreDown /\ UNCHANGED <<limiterVars, authVars, breakerVars, webVars>>
MsetStoreUp == StoreUp /\ UNCHANGED <<limiterVars, authVars, breakerVars, webVars>>

MsetNext ==
    \/ MsetWrite
    \/ MsetGet
    \/ MsetTick
    \/ MsetStoreDown
    \/ MsetStoreUp

MsetSpec == Init /\ [][MsetNext]_vars

(***************************************************************************)
(* The circuit breaker specification: concurrent execute calls under two    *)
(* names.                                                                   *)
(***************************************************************************)
BreakerNames == {"db", "queue"}
BreakerFns == {"f"}
BreakerOptionSets ==
    { NoBreakerOptions,
      [NoBreakerOptions EXCEPT !.resetTimeout = 1000, !.fallback = TRUE],
      [NoBreakerOptions EXCEPT !.enabled = "false"] }
\* the instants (ms) at which the circuit breaker specification observes the clock
BreakerInstants == {0, 1000, 3000, 10000, 30000}

BreakerExecute == \E p \in BreakerSlots, n \in BreakerNames, f \in BreakerFns, o \in BreakerOptionSets :
                      execute(p, n, f, o)
BreakerResolve == \E p \in BreakerSlots : operationResolves(p)
BreakerReject == \E p \in BreakerSlots : operationRejects(p)
BreakerTimeout == \E p \in BreakerSlots : callTimesOut(p)
BreakerReset == \E n \in DOMAIN breakers : resetTimer(n)
BreakerTick ==
    /\ \E t \in BreakerInstants :
          /\ Tick(t)
          /\ breakers' = [n \in DOMAIN breakers |-> Rotate(breakers[n], t)]
    /\ cbRet' = IdleExec
    /\ UNCHANGED <<nbreakers, cb, ncalls, limiterVars, authVars, webVars>>

BreakerNext ==
    \/ BreakerExecute
    \/ BreakerResolve
    \/ BreakerReject
    \/ BreakerTimeout
    \/ BreakerReset
    \/ BreakerTick

BreakerSpec == Init /\ [][BreakerNext]_vars

(***************************************************************************)
(* The reuse specification: calls under one name with different operations  *)
(* and options.                                                             *)
(***************************************************************************)
ReuseNames == {"db"}
ReuseFns == {"f", "g"}
ReuseOptionSets ==
    { NoBreakerOptions,
      [NoBreakerOptions EXCEPT !.resetTimeout = 1000, !.fallback = TRUE] }

ReuseExecute == \E p \in BreakerSlots, n \in ReuseNames, f \in ReuseFns, o \in ReuseOptionSets :
                    execute(p, n, f, o)

ReuseNext ==
    \/ ReuseExecute
    \/ BreakerResolve
    \/ BreakerReject
    \/ BreakerTimeout
    \/ BreakerReset
    \/ BreakerTick

ReuseSpec == Init /\ [][ReuseNext]_vars

(***************************************************************************)
(* The exception filter specification: one exception caught under each      *)
(* NODE_ENV.                                                                *)
(***************************************************************************)
NodeEnvs == {"development", "production", "test"}
ExceptionStatuses == {403, 429, 500, 503}
\* fields an exception payload can carry
PayloadFields == {"message", "error", "password", "token", "secret", "apiKey", "ip", "stack"}
ExceptionResponses ==
    {[type |-> "string", text |-> "Forbidden", object |-> EmptyObject]}
        \cup {[type |-> "object", text |-> "", object |-> [f \in F |-> "value of " \o f]] :
                  F \in SUBSET PayloadFields}

FilterInit ==
    /\ store = EmptyStore
    /\ now = 0
    /\ up = TRUE
    /\ ret = NoRet
    /\ written = NoWritten
    /\ scan = IdleScan
    /\ LimiterIdle
    /\ AuthIdle
    /\ BreakerIdle
    /\ arg \in {[fn |-> "catch", nodeEnv |-> e, status |-> st, response |-> r, url |-> "/tasks/1"] :
                    e \in NodeEnvs, st \in ExceptionStatuses, r \in ExceptionResponses}
    /\ res = NoRes
    /\ tasks = NoTasks
    /\ tkRet = IdleTaskCall
    /\ queue = NoQueue
    /\ client = IdleClient

FilterNext == HttpExceptionFilterCatch

FilterSpec == FilterInit /\ [][FilterNext]_vars

(***************************************************************************)
(* The duration specification: a service constructed with a configured      *)
(* refresh lifetime issues refresh tokens.                                  *)
(***************************************************************************)
RefreshExpirations ==
    {"", "7d", "3d", "1d", "15m", "2h", "45s", "0d", "10ms", "1.5h", "7days", "x3d",
     "7w", "7D", "d7", "7", "abc", "12h30m", "h"}
DurationInstants == {0, 1000}

DurationInit ==
    /\ store = EmptyStore
    /\ now = 0
    /\ up = TRUE
    /\ ret = NoRet
    /\ written = NoWritten
    /\ scan = IdleScan
    /\ LimiterIdle
    /\ AuthIdle
    /\ BreakerIdle
    /\ arg \in {[fn |-> "constructor", configured |-> c] : c \in RefreshExpirations}
    /\ res = NoRes
    /\ tasks = NoTasks
    /\ tkRet = IdleTaskCall
    /\ queue = NoQueue
    /\ client = IdleClient

DurationConstruct == AuthServiceConstructor
DurationIssue ==
    /\ res.fn = "constructor"
    /\ generateTokensFor("u1", res.refreshTokenTTL)
    /\ UNCHANGED <<now, up, cacheVars, limiterVars, breakerVars, webVars, rt, rtRet, rotations>>
DurationTick ==
    /\ \E t \in DurationInstants : t > now /\ now' = t
    /\ UNCHANGED <<store, up, cacheVars, limiterVars, authVars, breakerVars, webVars>>

DurationNext == DurationConstruct \/ DurationIssue \/ DurationTick

DurationSpec == DurationInit /\ [][DurationNext]_vars

(***************************************************************************)
(* The key specification: the rate-limit keys of two requests.              *)
(***************************************************************************)
KeyIps == {"", "1.1.1.1", "2.2.2.2", "::1"}
KeyRemoteAddresses == {"", "1.1.1.1", "10.0.0.7"}
KeyUserIds == {"", "u1", "u2"}
KeyRequests ==
    {[ip |-> i, remoteAddress |-> a, userId |-> u] :
        i \in KeyIps, a \in KeyRemoteAddresses, u \in KeyUserIds}

KeyInit ==
    /\ store = EmptyStore
    /\ now = 0
    /\ up = TRUE
    /\ ret = NoRet
    /\ written = NoWritten
    /\ scan = IdleScan
    /\ LimiterIdle
    /\ AuthIdle
    /\ BreakerIdle
    /\ arg \in {[fn |-> "defaultKeyGenerator", requests |-> <<r1, r2>>] :
                    r1 \in KeyRequests, r2 \in KeyRequests}
    /\ res = NoRes
    /\ tasks = NoTasks
    /\ tkRet = IdleTaskCall
    /\ queue = NoQueue
    /\ client = IdleClient

KeyNext == RateLimitGuardKey

KeySpec == KeyInit /\ [][KeyNext]_vars

(***************************************************************************)
(* The tasks specification: lookups in a tasks table.                       *)
(***************************************************************************)
TaskIds == {"id-1", "id-2", "id-3"}
TaskStatuses == {"PENDING", "COMPLETED"}
TaskTables ==
    UNION {[S -> {[id |-> "", status |-> st, userId |-> "u"] : st \in TaskStatuses}] :
              S \in SUBSET TaskIds}

TasksInit ==
    /\ store = EmptyStore
    /\ now = 0
    /\ up = TRUE
    /\ ret = NoRet
    /\ written = NoWritten
    /\ scan = IdleScan
    /\ LimiterIdle
    /\ AuthIdle
    /\ BreakerIdle
    /\ arg = NoArg
    /\ res = NoRes
    /\ tasks \in {[id \in DOMAIN t |-> [t[id] EXCEPT !.id = id]] : t \in TaskTables}
    /\ tkRet = IdleTaskCall
    /\ queue = NoQueue
    /\ client = IdleClient

TasksFindOne == \E id \in TaskIds \cup {"missing"} : findOne(id)

TasksNext == TasksFindOne

TasksSpec == TasksInit /\ [][TasksNext]_vars

(***************************************************************************)
(* The client specification: the Redis client while the store comes and     *)
(* goes and operations send commands.                                       *)
(***************************************************************************)
\* the reconnection attempts in a row, and the waiting commands, in the runs explored
MaxAttempts == 44
MaxPending == 2

ClientRest == UNCHANGED <<store, now, up, cacheVars, limiterVars, authVars, breakerVars, arg, res, tasks, tkRet, queue>>
ClientConnect == onModuleInit /\ ClientRest
ClientReady == clientReady /\ ClientRest
ClientClose == client.retryAttempts < MaxAttempts /\ clientClose /\ ClientRest
ClientReconnect == clientReconnect /\ ClientRest
ClientSend == Len(client.pending) < MaxPending /\ sendCommand /\ ClientRest
ClientReply == commandReply /\ ClientRest
ClientStoreDown == StoreDown /\ UNCHANGED <<limiterVars, authVars, breakerVars, webVars>>
ClientStoreUp == StoreUp /\ UNCHANGED <<limiterVars, authVars, breakerVars, webVars>>

ClientNext ==
    \/ ClientConnect
    \/ ClientReady
    \/ ClientClose
    \/ ClientReconnect
    \/ ClientSend
    \/ ClientReply
    \/ ClientStoreDown
    \/ ClientStoreUp

ClientSpec == Init /\ [][ClientNext]_vars
\* every connection attempt comes to an end, every reconnection timer fires and a store
\* that is reachable answers
ClientFairSpec ==
    /\ ClientSpec
    /\ WF_vars(ClientReconnect)
    /\ SF_vars(ClientReady)
    /\ SF_vars(ClientClose)
    /\ SF_vars(ClientReply)

(***************************************************************************)
(* The submission specification: create() and update() against a database  *)
(* and a queue that may fail them.                                          *)
(***************************************************************************)
SubmitIds == {"id-1", "id-2"}
SubmitStatuses == {"PENDING", "COMPLETED"}
CreateTaskDtos == {[status |-> st, userId |-> "u"] : st \in SubmitStatuses}
UpdateTaskDtos == {[status |-> st] : st \in SubmitStatuses \cup {NotGiven}}
\* the jobs the queue holds at most in the runs explored
MaxJobs == 2

SubmitCreate ==
    /\ Len(queue) < MaxJobs
    /\ \E dto \in CreateTaskDtos, id \in SubmitIds \ (DOMAIN tasks \cup {queue[i].taskId : i \in 1..Len(queue)}),
          saves \in BOOLEAN, adds \in BOOLEAN, commits \in BOOLEAN :
          create(dto, id, saves, adds, commits)
SubmitUpdate ==
    /\ Len(queue) < MaxJobs
    /\ \E id \in SubmitIds, dto \in UpdateTaskDtos, saves \in BOOLEAN, adds \in BOOLEAN, commits \in BOOLEAN :
          update(id, dto, saves, adds, commits)
SubmitFindOne == \E id \in SubmitIds : findOne(id)

SubmitNext == SubmitCreate \/ SubmitUpdate \/ SubmitFindOne

SubmitSpec == Init /\ [][SubmitNext]_vars

TypeOK ==
    /\ now \in Nat
    /\ up \in BOOLEAN
    /\ \A k \in DOMAIN store : store[k].exp = NoExpiry \/ store[k].exp > now

(***************************************************************************)
(* Properties of RedisCacheService (specification Spec).                    *)
(***************************************************************************)
\* the entry that set() wrote under the key of the get() just completed, untouched since
GotWritten == ret.op = "get" /\ ret.key \in DOMAIN written
\* milliseconds between that set() and the get()
GotAge == now - written[ret.key].at

\* C7: get() never fails its caller: it always ends by returning a value, the value is
\* null whenever the GET command or the deserialization of its reply failed, and the
\* call leaves every stored entry as it was.
C7_GetFailSoft ==
    [][\A k \in CacheKeys, ns \in CacheNamespaces :
          (ret' = getRet(k, ns) /\ ret'.op = "get")
              => /\ ret'.kind = "value"
                 /\ GetThrows(buildKey(k, ns)) => ret'.v = JsNull
                 /\ store' = store]_vars

\* a get() that met an undeserializable payload has returned null
C7_Witness ==
    /\ ret.op = "get" /\ ret.kind = "value" /\ ret.v = JsNull
    /\ up /\ ret.key \in DOMAIN store /\ store[ret.key].type = "string"
    /\ ~JsonParses(store[ret.key].val)

\* C8 (as claimed): a set(), delete() or deleteByPattern() whose store command failed
\* ends by throwing to the caller, never by a normal result.
C8_WriteFailLoud ==
    (ret.op \in {"set", "delete", "deleteByPattern"} /\ ret.failed) => ret.kind = "throw"

\* C9: set(k, v, T) with T > 0 and v JSON-serializable, then get(k) on a healthy store
\* with no other write to k in between: the get returns v while fewer than T seconds have
\* elapsed and null (absent) once T seconds have elapsed.
C9_RoundTrip ==
    (GotWritten /\ up /\ written[ret.key].ttlSeconds > 0 /\ JsonSerializable(written[ret.key].v))
        => ret.v = IF GotAge < written[ret.key].ttlSeconds * 1000 THEN written[ret.key].v ELSE JsNull

\* a get() has returned the value set with T = 1 half a second earlier
C9_Witness ==
    /\ GotWritten /\ up /\ written[ret.key].ttlSeconds = 1
    /\ GotAge > 0 /\ GotAge < 1000
    /\ written[ret.key].v = JsStr("v") /\ ret.v = JsStr("v")

\* C10 (as claimed): a value set with neither ttlSeconds nor options.ttl never expires;
\* get keeps returning it until the key is deleted or overwritten.
C10_NoTtlNoExpiry ==
    (GotWritten /\ up /\ written[ret.key].ttlSeconds = NoTtl /\ written[ret.key].optTtl = NoTtl
        /\ JsonSerializable(written[ret.key].v))
        => ret.v = written[ret.key].v

\* C10 (amended): a value set with neither ttlSeconds nor options.ttl gets the default
\* TTL of 300 seconds: get returns it while fewer than 300 seconds have elapsed and null
\* (absent) afterwards.
C10_DefaultTtl ==
    (GotWritten /\ up /\ written[ret.key].ttlSeconds = NoTtl /\ written[ret.key].optTtl = NoTtl
        /\ JsonSerializable(written[ret.key].v))
        => ret.v = IF GotAge < defaultTTL * 1000 THEN written[ret.key].v ELSE JsNull

\* a get() 300 seconds after a set() without TTL has returned null
C10_Witness ==
    /\ GotWritten /\ up /\ written[ret.key].ttlSeconds = NoTtl /\ written[ret.key].optTtl = NoTtl
    /\ JsonSerializable(written[ret.key].v)
    /\ GotAge >= defaultTTL * 1000 /\ ret.v = JsNull

(***************************************************************************)
(* Properties of the namespaces (specification NamespaceSpec).              *)
(***************************************************************************)
\* the namespace an operation works under: the one given, or the default
EffectiveNamespace(namespace) == IF namespace # NoNs THEN namespace ELSE defaultNamespace
\* what get, has and mget under the namespace can observe
Observable(namespace) ==
    <<[k \in NsKeys |-> <<getRet(k, namespace).v, hasRet(k, namespace).b>>],
      [ks \in NsKeyLists |-> mgetRet(ks, namespace).vs]>>
\* the step is a set, delete, deleteByPattern or clear issued under the namespace
WritesUnder(namespace) ==
    \/ \E k \in NsKeys, v \in NsValues : set(k, v, NoTtl, NoTtl, namespace)
    \/ \E k \in NsKeys : delete(k, namespace)
    \/ /\ scan.pc = "scan" /\ scan.ns = EffectiveNamespace(namespace)
       /\ \E visit \in SUBSET DOMAIN store, last \in BOOLEAN : scanStreamData(visit, last)

\* the keys of the store that the pattern of the scan in flight matches
ScanMatching == {k \in DOMAIN store : GlobMatch(scan.match, k)}

\* C29 (as claimed): a deleteByPattern whose keys nobody else has written or removed since
\* it started (here: a scan served in one reply) returns n with every matching key that
\* existed at the start deleted, and n is the number of keys deleted.
C29_DeleteByPatternCount ==
    [][(/\ scan.pc = "scan" /\ scan.op = "deleteByPattern"
        /\ scan.batches = 0 /\ scan.must = DOMAIN store
        /\ \E visit \in SUBSET DOMAIN store : scanStreamData(visit, TRUE))
          => /\ ret'.op = "deleteByPattern" /\ ret'.kind = "count"
             /\ ScanMatching \cap DOMAIN store' = {}
             /\ ret'.n = Cardinality(DOMAIN store \ DOMAIN store')
             /\ ret'.n = Cardinality(ScanMatching)]_vars

\* C34: delete(key, namespace) on a healthy store returns true exactly when the namespaced
\* key existed, and the key is then removed; afterwards get(key, namespace) returns absent,
\* a second delete of the key returns false, and no other key is changed.
C34_DeleteAlgebra ==
    [][\A k \in CacheKeys \cup NsKeys, ns \in CacheNamespaces \cup NsNamespaces :
          (delete(k, ns) /\ up)
              => /\ ret'.op = "delete" /\ ret'.kind = "bool" /\ ~ret'.failed
                 /\ ret'.b = (buildKey(k, ns) \in DOMAIN store)
                 /\ buildKey(k, ns) \notin DOMAIN store'
                 /\ getRet(k, ns)'.v = JsNull
                 /\ ~deleteRet(k, ns)'.b
                 /\ DOMAIN store' = DOMAIN store \ {buildKey(k, ns)}
                 /\ \A other \in DOMAIN store' : store'[other] = store[other]]_vars
\* a delete has returned true and removed its key while another key is still stored
C34_Witness ==
    /\ ret.op = "delete" /\ ret.b /\ ~ret.failed /\ up
    /\ ret.key \notin DOMAIN store
    /\ store # EmptyStore

C11_NamespaceIsolation ==
    [][\A A \in NsNamespaces :
          /\ \A k \in NsKeys, v \in NsValues :
                (set(k, v, NoTtl, NoTtl, A) /\ up)
                    => /\ ret'.key = EffectiveNamespace(A) \o ":" \o k
                       /\ DOMAIN store' = DOMAIN store \cup {ret'.key}
          /\ \A B \in NsNamespaces :
                (EffectiveNamespace(A) # EffectiveNamespace(B) /\ WritesUnder(A))
                    => Observable(B)' = Observable(B)]_vars

(***************************************************************************)
(* Properties of CircuitBreakerService (specification BreakerSpec).         *)
(***************************************************************************)
\* an execute call has just completed
Executed == cbRet.pc = "done"

\* C12: an execute call made while the breaker of its name is open does not invoke the
\* wrapped operation; it ends with the breaker's fallback value or with the error
\* 'Breaker is open', which says nothing of the failures that opened the breaker.
C12_OpenShortCircuits ==
    /\ \A p \in BreakerSlots : Running(p) => cb[p].stateAtCall # "open"
    /\ (Executed /\ cbRet.stateAtCall = "open")
           => /\ ~cbRet.invoked
              /\ \/ cbRet.outcome = "fallback"
                 \/ cbRet.outcome = "error" /\ cbRet.message = "Breaker is open"

\* a call on an open breaker without fallback has ended with 'Breaker is open'
C12_Witness ==
    /\ Executed /\ cbRet.stateAtCall = "open" /\ ~cbRet.invoked
    /\ cbRet.outcome = "error" /\ cbRet.message = "Breaker is open"
    /\ breakers[cbRet.name].state = "open"

\* the failure percentage of the breaker's window exceeds its threshold
OverThreshold(b) ==
    Stats(b, "failures") * 100 > b.options.errorThresholdPercentage * Stats(b, "fires")

\* C13 (as claimed): a breaker leaves the closed state only when at least the minimum
\* sample volume of calls (10 in the claim's scenario) is recorded in the window and the
\* failure percentage exceeds errorThresholdPercentage, and it does leave it then; below
\* the minimum volume it stays closed.
C13_TripsOnVolumeAndRate ==
    [][\A n \in DOMAIN breakers :
          breakers[n].state = "closed"
              => (breakers'[n].state # "closed"
                      <=> (Stats(breakers[n], "fires") >= 10 /\ OverThreshold(breakers[n]))')]_vars

\* the step completes the half-open trial call of the breaker
TrialEnds(n) == cbRet'.pc = "done" /\ cbRet'.name = n /\ cbRet'.trial
\* the trial calls of the breaker that are in flight
Trials(n) == {p \in BreakerSlots : Running(p) /\ cb[p].name = n /\ cb[p].trial}

\* C14 (as claimed): open goes to half-open only, and only once resetTimeout has elapsed
\* since the breaker opened; closed goes to open only; half-open goes to closed only when
\* its trial call succeeds and to open only when its trial call fails, and a trial that
\* succeeds leaves the breaker closed, one that fails leaves it open; in half-open one
\* call at most is the trial and every other call short-circuits.
C14_HalfOpenProtocol ==
    [][\A n \in DOMAIN breakers :
          /\ (breakers[n].state = "open" /\ breakers'[n].state # "open")
                 => /\ breakers'[n].state = "halfOpen"
                    /\ now >= breakers[n].openedAt + breakers[n].options.resetTimeout
          /\ breakers[n].state = "closed" => breakers'[n].state \in {"closed", "open"}
          /\ (breakers[n].state = "halfOpen" /\ breakers'[n].state = "closed")
                 => TrialEnds(n) /\ cbRet'.outcome = "result"
          /\ (breakers[n].state = "halfOpen" /\ breakers'[n].state = "open")
                 => TrialEnds(n) /\ cbRet'.outcome # "result"
          /\ TrialEnds(n)
                 => breakers'[n].state = IF cbRet'.outcome = "result" THEN "closed" ELSE "open"
          /\ Cardinality(Trials(n)') <= 1
          /\ (cbRet'.pc = "done" /\ cbRet'.name = n /\ cbRet'.stateAtCall = "halfOpen"
                 /\ ~cbRet'.trial)
                 => ~cbRet'.invoked]_vars

\* the step starts, short-circuits or completes an execute call made under the name
CallStepOf(n) ==
    \/ \E p \in BreakerSlots : ~Running(p) /\ Running(p)' /\ cb'[p].name = n
    \/ \E p \in BreakerSlots : Running(p) /\ ~Running(p)' /\ cb[p].name = n
    \/ ncalls' = ncalls + 1 /\ cbRet'.pc = "done" /\ cbRet'.name = n

\* C32 (as claimed): execute(name, operation, options) with the breaker for name closed
\* invokes the operation passed to that call, with the options in force for it, and
\* returns that operation's result, also when the call reuses a breaker made by a call
\* with another operation or other options.
C32_ExecuteRunsItsOperation ==
    [][/\ \A p \in BreakerSlots, n \in ReuseNames, f \in ReuseFns, o \in ReuseOptionSets :
             (execute(p, n, f, o) /\ (n \in DOMAIN breakers => breakers[n].state = "closed"))
                 => /\ cb'[p].invoked /\ cb'[p].name = n
                    /\ cb'[p].fn = f
                    /\ breakers'[n].options = breakerOptions(o)
                    /\ breakers'[n].fallback = o.fallback
       /\ \A p \in BreakerSlots :
             operationResolves(p) => cbRet'.outcome = "result" /\ cbRet'.fn = cb[p].fn]_vars

\* C15: the registry holds one breaker per name: as many breakers were ever constructed as
\* names are registered, and a registered name keeps its breaker for good; the first
\* execute for a name constructs its breaker (closed, this call its only count), every
\* later execute with the name works on the same breaker, in the state and with the
\* counters it had, whatever options it passes; and a call made under one name leaves the
\* breaker of every other name as it was.
C15_RegistryOnePerName ==
    [][\A n \in BreakerNames :
          /\ nbreakers' = Cardinality(DOMAIN breakers')
          /\ n \in DOMAIN breakers
                 => n \in DOMAIN breakers' /\ breakers'[n].id = breakers[n].id
          /\ \A p \in BreakerSlots, f \in BreakerFns, o \in BreakerOptionSets :
                 execute(p, n, f, o)
                     => /\ n \in DOMAIN breakers'
                        /\ IF n \in DOMAIN breakers
                           THEN /\ breakers'[n].state = breakers[n].state
                                /\ breakers'[n].options = breakers[n].options
                                /\ breakers'[n].fallback = breakers[n].fallback
                                /\ Stats(breakers'[n], "fires") = Stats(breakers[n], "fires") + 1
                                /\ Stats(breakers'[n], "failures") = Stats(breakers[n], "failures")
                           ELSE /\ breakers'[n].id = nbreakers + 1
                                /\ breakers'[n].state = "closed"
                                /\ breakers'[n].options = breakerOptions(o)
                                /\ Stats(breakers'[n], "fires") = 1
          /\ CallStepOf(n)
                 => \A other \in DOMAIN breakers \ {n} : breakers'[other] = breakers[other]]_vars

\* a second call under "db" has completed on the breaker made by the first, which is open
\* with two calls counted, while the breaker of "queue" is closed
C15_Witness ==
    /\ Executed /\ cbRet.name = "db" /\ cbRet.id = 1
    /\ DOMAIN breakers = BreakerNames
    /\ breakers["db"].id = 1 /\ breakers["db"].state = "open"
    /\ Stats(breakers["db"], "fires") = 2
    /\ breakers["queue"].id = 2 /\ breakers["queue"].state = "closed"

(***************************************************************************)
(* Properties of HttpExceptionFilter (specification FilterSpec).            *)
(***************************************************************************)
\* C22 (as claimed): for every HttpException and every NODE_ENV, the body sent to the
\* client has none of the fields password, token, secret, apiKey and ip of the exception
\* payload, neither at top level nor under details.
C22_NoSensitiveFields ==
    res.fn = "catch"
        => /\ DOMAIN res.body \cap {"password", "token", "secret", "apiKey", "ip"} = {}
           /\ "details" \in DOMAIN res.body
                  => DOMAIN res.body["details"]
                         \cap {"password", "token", "secret", "apiKey", "ip"} = {}

(***************************************************************************)
(* Properties of the refresh lifetime (specification DurationSpec).         *)
(***************************************************************************)
\* the string is <n><unit>: one or more digits, then one of s, m, h, d, and nothing else
IsDurationForm(s) ==
    /\ Len(s) >= 2
    /\ \A k \in 1..(Len(s) - 1) : IsDigit(CharAt(s, k))
    /\ CharAt(s, Len(s)) \in {"s", "m", "h", "d"}
\* n x {1, 60, 3600, 86400} for a string of the form, 604800 for any other
ClaimedLifetime(s) ==
    IF IsDurationForm(s)
    THEN ParseInt(SubSeq(s, 1, Len(s) - 1))
             * (CASE CharAt(s, Len(s)) = "s" -> 1 [] CharAt(s, Len(s)) = "m" -> 60
                  [] CharAt(s, Len(s)) = "h" -> 3600 [] CharAt(s, Len(s)) = "d" -> 86400)
    ELSE 604800

\* C23 (as claimed): a lifetime string <n><unit> is parsed to n x {1, 60, 3600, 86400}
\* seconds, a string not of that form gives 604800, and the resulting number of seconds is
\* the TTL of every refresh-token record that issue stores.
C23_RefreshLifetime ==
    /\ [](res.fn = "constructor" => res.refreshTokenTTL = ClaimedLifetime(arg.configured))
    /\ [][(res.fn = "constructor" /\ up /\ generateTokensFor("u1", res.refreshTokenTTL))
              => store'[buildKey(RefreshTokenKey(TokenId(ntok + 1), "u1"), "auth")].exp
                     = now + res.refreshTokenTTL * 1000]_vars

(***************************************************************************)
(* Properties of TasksService (specifications TasksSpec and SubmitSpec).    *)
(***************************************************************************)
\* C24: findOne(id) returns the stored task when the repository holds a task with that id,
\* and otherwise fails with NotFound 'Task with ID <id> not found'; it never returns an
\* empty result and it changes neither the tasks table nor the store.
C24_FindOne ==
    [][\A id \in TaskIds \cup {"missing"} :
          (tkRet' # tkRet /\ tkRet'.op = "findOne" /\ tkRet'.id = id)
              => /\ id \in DOMAIN tasks
                       => tkRet'.outcome = "task" /\ tkRet'.task = tasks[id] /\ tkRet'.task.id = id
                 /\ id \notin DOMAIN tasks
                       => /\ tkRet'.outcome = "NotFoundException"
                          /\ tkRet'.message = "Task with ID " \o id \o " not found"
                 /\ tkRet'.outcome \in {"task", "NotFoundException"}
                 /\ tasks' = tasks /\ store' = store]_vars
\* a lookup of an identifier that a non-empty table does not hold has failed
C24_Witness ==
    /\ tkRet.op = "findOne" /\ tkRet.outcome = "NotFoundException"
    /\ tkRet.message = "Task with ID missing not found"
    /\ tasks # NoTasks

\* C36: the submission to the queue is best-effort: when taskQueue.add fails in create()
\* or in update(), nothing is added, the call ends as it would have ended with the job
\* added, and when the save and the commit go through, the task change is committed and
\* the task is returned.
C36_QueueBestEffort ==
    [][/\ \A dto \in CreateTaskDtos, id \in SubmitIds, saves \in BOOLEAN, commits \in BOOLEAN :
             create(dto, id, saves, FALSE, commits)
                 => /\ queue' = queue
                    /\ tkRet' = createRet(dto, id, saves, TRUE, commits)
                    /\ (saves /\ commits)
                           => /\ id \in DOMAIN tasks' /\ tasks'[id] = createdTask(dto, id)
                              /\ tkRet'.outcome = "task" /\ tkRet'.task = tasks'[id]
                    /\ ~(saves /\ commits) => tasks' = tasks
       /\ \A id \in SubmitIds, dto \in UpdateTaskDtos, saves \in BOOLEAN, commits \in BOOLEAN :
             (update(id, dto, saves, FALSE, commits) /\ RepositoryFinds(id))
                 => /\ queue' = queue
                    /\ tkRet' = updateRet(id, dto, saves, TRUE, commits)
                    /\ (saves /\ commits)
                           => /\ tasks'[id] = merge(tasks[id], dto)
                              /\ tkRet'.outcome = "task" /\ tkRet'.task = tasks'[id]
                    /\ ~(saves /\ commits) => tasks' = tasks]_vars
\* a create() whose job was not added committed its task and returned it
C36_Witness ==
    /\ tkRet.op = "create" /\ tkRet.outcome = "task"
    /\ tkRet.id \in DOMAIN tasks /\ tasks[tkRet.id] = tkRet.task
    /\ \A i \in 1..Len(queue) : queue[i].taskId # tkRet.id

\* C37 (as claimed): every job that create() or update() adds to the queue refers to a
\* committed task state: a call adds at most one 'task-status-update' job, and only when
\* its transaction committed, for the task and the status the table then holds.
C37_JobsReferToCommittedState ==
    [][queue' # queue
          => /\ queue' = Append(queue, queue'[Len(queue')])
             /\ queue'[Len(queue')].name = "task-status-update"
             /\ tkRet'.outcome = "task"
             /\ queue'[Len(queue')].taskId \in DOMAIN tasks'
             /\ queue'[Len(queue')] = Job(tasks'[queue'[Len(queue')].taskId])]_vars

(***************************************************************************)
(* Properties of the key derivation (specification KeySpec).                *)
(***************************************************************************)
\* the caller's network identity: the request's ip, else the connection's address
NetworkIdentity(request) ==
    IF request.ip # "" THEN request.ip
    ELSE IF request.remoteAddress # "" THEN request.remoteAddress ELSE "unknown"
\* part occurs in text
Contains(text, part) ==
    \E i \in 1..(Len(text) - Len(part) + 1) : SubSeq(text, i, i + Len(part) - 1) = part
\* sixteen hexadecimal digits
IsHex16(text) ==
    /\ Len(text) = 16
    /\ \A i \in 1..16 : CharAt(text, i) \in {"0", "1", "2", "3", "4", "5", "6", "7", "8", "9",
                                            "a", "b", "c", "d", "e", "f"}
BothKeys == res.fn = "defaultKeyGenerator" /\ Len(res.keys) = 2

\* C30: the key is hash(ip) when no subject is authenticated and hash(ip):subjectId
\* otherwise, with hash a truncated digest of sixteen hexadecimal digits; two requests with
\* the same ip and subject get the same key, two requests with different subjects from one
\* ip get different keys, and the raw ip is never part of the key.
C30_KeyDerivation ==
    BothKeys
        => /\ \A i \in 1..2 :
                 LET request == arg.requests[i]
                     hash == SubSeq(res.keys[i], 1, 16)
                 IN  /\ Len(res.keys[i]) >= 16
                     /\ IsHex16(hash)
                     /\ hash = Sha256Hex16(NetworkIdentity(request))
                     /\ res.keys[i] = IF request.userId = "" THEN hash
                                      ELSE hash \o ":" \o request.userId
                     /\ ~Contains(res.keys[i], NetworkIdentity(request))
           /\ (/\ NetworkIdentity(arg.requests[1]) = NetworkIdentity(arg.requests[2])
               /\ arg.requests[1].userId = arg.requests[2].userId)
                  => res.keys[1] = res.keys[2]
           /\ (/\ NetworkIdentity(arg.requests[1]) = NetworkIdentity(arg.requests[2])
               /\ arg.requests[1].userId # arg.requests[2].userId)
                  => res.keys[1] # res.keys[2]
\* the keys of two subjects behind one address, taken from the request and from the
\* connection, are there and differ
C30_Witness ==
    /\ BothKeys
    /\ arg.requests[1] = [ip |-> "1.1.1.1", remoteAddress |-> "10.0.0.7", userId |-> "u1"]
    /\ arg.requests[2] = [ip |-> "", remoteAddress |-> "1.1.1.1", userId |-> "u2"]
    /\ res.keys = <<"f1412386aa8db257:u1", "f1412386aa8db257:u2">>

(***************************************************************************)
(* Properties of RateLimitGuard (specification LimiterSpec).                *)
(***************************************************************************)
\* a rate-limit check has just completed
Checked == rlRet.pc = "done"
\* every check so far ran alone, within one clock instant, with all its store commands served
Sequential == ~rlRaced /\ ~rlFault /\ ~rlSlow
\* all admissions recorded for the key
TotalAdmitted(key) ==
    LET RECURSIVE Sum(_)
        Sum(S) == IF S = {} THEN 0
                  ELSE LET u == CHOOSE x \in S : TRUE IN admitted[key][u] + Sum(S \ {u})
    IN  Sum(DOMAIN admitted[key])
\* the key has had limit admissions inside one window
ReachedLimit(key, limit, windowMs) ==
    \E u \in DOMAIN admitted[key] : AdmittedInWindow(key, u, windowMs) >= limit

\* C3 (as claimed): with sequential requests on a healthy store, a request is admitted
\* exactly when fewer than limit requests were admitted before it inside the window, so
\* min(N, L) of N requests are admitted; a rejected request reports remaining = 0.
C3_SequentialAdmissions ==
    (Checked /\ Sequential)
        => /\ rlRet.outcome \in {"admitted", "rejected"}
           /\ rlRet.outcome = "admitted" <=> rlRet.prior < rlRet.limit
           /\ rlRet.outcome = "rejected" => rlRet.remaining = 0

\* C4 (as claimed): with sequential requests on a healthy store, an admitted request
\* reports remaining = limit - count - 1 and reset = now + windowMs, where count is the
\* number of requests admitted before it in the window, so the i-th admitted request
\* reports L - i; a rejected one reports remaining = 0.
C4_RemainingCountsDown ==
    (Checked /\ Sequential)
        => IF rlRet.outcome = "admitted"
           THEN /\ rlRet.remaining = rlRet.limit - rlRet.count - 1
                /\ rlRet.count = rlRet.prior
                /\ rlRet.reset = rlRet.t + rlRet.windowMs
           ELSE rlRet.remaining = 0

\* C5: a request that arrives more than windowMs after the latest earlier request of its
\* key, with no check racing, is admitted as the first of a fresh window: count 0 before
\* it and remaining = limit - 1 (whether or not the key had reached its limit).
C5_FreshWindow ==
    (Checked /\ ~rlRaced /\ rlRet.gap > rlRet.windowMs)
        => /\ rlRet.outcome = "admitted"
           /\ rlRet.count = 0
           /\ rlRet.remaining = rlRet.limit - 1

\* a key that had reached its limit of 2 is admitted again after the window has passed
C5_Witness ==
    /\ Checked /\ Sequential /\ rlRet.gap > rlRet.windowMs
    /\ rlRet.limit = 2
    /\ ReachedLimit(rlRet.key, rlRet.limit, rlRet.windowMs)
    /\ rlRet.outcome = "admitted" /\ rlRet.count = 0 /\ rlRet.remaining = 1

\* C6 (as claimed): a check during which a store command failed ends with the request
\* admitted, never with a server error and never with a rejection.
C6_FailOpen ==
    (Checked /\ rlRet.faulted) => rlRet.outcome = "admitted"

\* the timestamps recorded under the key
Recorded(s, key) == IF key \in DOMAIN s THEN s[key].members ELSE {}
\* the recorded timestamps inside the closed window that ends at t
LiveAt(s, key, t, windowMs) == {u \in Recorded(s, key) : t - windowMs <= u /\ u <= t}

\* C26 (as claimed): for a check with nothing racing it, the eviction leaves exactly the
\* recorded timestamps t with now - windowMs <= t <= now (older ones are evicted, none
\* inside the closed interval is), and the count taken is their number.
C26_LiveWindow ==
    [][\A p \in Slots :
          /\ (getCurrentCountEvict(p) /\ up /\ ~rlRaced /\ ~rlSlow)
                 => Recorded(store', rl[p].key) = LiveAt(store, rl[p].key, rl[p].t, rl[p].windowMs)
          /\ (getCurrentCountCard(p) /\ up /\ ~rlRaced /\ ~rlSlow)
                 => rl'[p].count
                        = Cardinality(LiveAt(store, rl[p].key, rl[p].t, rl[p].windowMs))]_vars

\* C27 (as claimed): an admission that completes on a healthy store with no concurrent
\* request on the key leaves the record with the count it observed plus 1 members, its own
\* timestamp among them, and with its expiry refreshed to the window length (in the whole
\* seconds of the store).
C27_AdmissionAddsOne ==
    [][\A p \in Slots :
          (incrementCountExpire(p) /\ up /\ ~rl[p].faulted /\ ~rlRaced /\ ~rlSlow)
              => /\ rlRet'.outcome = "admitted"
                 /\ rl[p].t \in Recorded(store', rl[p].key)
                 /\ store'[rl[p].key].exp = now + Ceil(rl[p].windowMs, 1000) * 1000
                 /\ Cardinality(Recorded(store', rl[p].key)) = rl[p].count + 1]_vars

\* two checks of the key raced, both were admitted and both have completed
BothRacedAndAdmitted(key) ==
    /\ rlRaced /\ ~rlFault /\ up
    /\ \A p \in Slots : ~InFlight(p)
    /\ nreq = 2
    /\ TotalAdmitted(key) = 2

\* C28 (as claimed): after two racing checks of one key have both completed and both were
\* admitted, the record holds both inserted timestamps: a later check inside the window
\* counts every admission that is still inside it.
C28_EventualVisibility ==
    \A key \in RateLimitKeys :
        BothRacedAndAdmitted(key)
            => Cardinality({u \in Recorded(store, key) : u > now - WindowMs /\ u <= now})
                   >= AdmittedInWindow(key, now, WindowMs)

\* the options in force for the operation: the handler's if present, else the controller's
Configured == IF meta.handler.present THEN meta.handler ELSE meta.controller

\* C31 (as claimed): the limit, windowMs and key derivation function that canActivate uses
\* are those configured on the handler if present, else those configured on the
\* controller, else the process-wide defaults; every configured value, whatever it is,
\* overrides the default.
C31_ConfigurationPrecedence ==
    [][\A p \in Slots, r \in GuardedRequests :
          canActivate(p, r)
              => /\ rl'[p].limit = IF Configured.present THEN Configured.limit ELSE defaultLimit
                 /\ rl'[p].windowMs
                        = IF Configured.present THEN Configured.windowMs ELSE defaultWindowMs
                 /\ rl'[p].key
                        = "rate_limit:" \o (IF Configured.present /\ Configured.keyGenerator # ""
                                            THEN customKeyGenerator(r)
                                            ELSE defaultKeyGenerator(r))]_vars

\* the step leaves every entry of the store but that of the key as it is
OnlyKeyChanges(key) ==
    /\ DOMAIN store' \ {key} = DOMAIN store \ {key}
    /\ \A k \in DOMAIN store \ {key} : store'[k] = store[k]

\* C33: the steps of a check that ends in a rejection insert nothing: the eviction removes
\* only members whose age has reached windowMs and keeps every other member and the
\* expiry, the count and the rejection leave the store as it is; so the record holds the
\* live members it held before and its expiry is not refreshed.
C33_RejectionInsertsNothing ==
    [][\A p \in Slots :
          /\ (getCurrentCountEvict(p) /\ up)
                 => /\ OnlyKeyChanges(rl[p].key)
                    /\ Recorded(store', rl[p].key)
                           = {u \in Recorded(store, rl[p].key) : u > rl[p].t - rl[p].windowMs}
                    /\ rl[p].key \in DOMAIN store'
                           => store'[rl[p].key].exp = store[rl[p].key].exp
          /\ (getCurrentCountEvict(p) /\ ~up) => store' = store
          /\ getCurrentCountCard(p) => store' = store
          /\ canActivateReject(p)
                 => /\ store' = store
                    /\ up => /\ rlRet'.outcome = "rejected"
                             /\ rlRet'.count >= rlRet'.limit]_vars
\* a request was rejected at a time when an earlier admission had left its window and the
\* record, while the record still held a live one
C33_Witness ==
    /\ rlRet.pc = "done" /\ rlRet.outcome = "rejected" /\ ~rlRet.faulted
    /\ rlRet.key \in DOMAIN store
    /\ \E u \in DOMAIN admitted[rlRet.key] :
          /\ u <= rlRet.t - rlRet.windowMs
          /\ u \notin Recorded(store, rlRet.key)
    /\ \E u \in Recorded(store, rlRet.key) : u > rlRet.t - rlRet.windowMs

\* C21 (as claimed): a rejection carries limit = the limit, current = the count the check
\* took, remaining = 0, and retryAfter = the remaining time-to-live of the key in seconds
\* when the store reports one, otherwise windowMs in seconds.
C21_RejectionPayload ==
    [][\A p \in Slots :
          (canActivateReject(p) /\ up)
              => /\ rlRet'.outcome = "rejected"
                 /\ rlRet'.limit = rl[p].limit
                 /\ rlRet'.current = rl[p].count
                 /\ rlRet'.remaining = 0
                 /\ rlRet'.retryAfter =
                        IF RedisTtl(store, rl[p].key) > 0 THEN RedisTtl(store, rl[p].key)
                        ELSE Ceil(rl[p].windowMs, 1000)]_vars

\* the requests that race: the guard executions that can be in flight together once some
\* have overlapped, a single one as long as none has
Racing == IF rlRaced THEN Cardinality(Slots) ELSE 1

\* C20 (as claimed): with every store command served and every check done within one
\* clock instant, the requests of one key admitted inside one window never number more
\* than limit + k - 1, k being the number of requests that race; with no requests racing
\* they never number more than the limit.
C20_BoundedOverAdmission ==
    (~rlFault /\ ~rlSlow)
        => \A key \in RateLimitKeys : \A u \in DOMAIN admitted[key] :
               AdmittedInWindow(key, u, WindowMs) <= Limit + Racing - 1

(***************************************************************************)
(* Properties of the refresh-token rotation (specification AuthSpec).       *)
(***************************************************************************)
\* C1 (as claimed): a refreshToken call that presents a credential which an earlier
\* call has already rotated successfully is rejected.
C1_RotationExclusive ==
    (rtRet.pc = "done" /\ rtRet.replay) => rtRet.outcome = "unauthorized"

\* C2 (as claimed): of all the refreshToken calls that present one credential, in any
\* interleaving, at most one succeeds and issues new credentials.
C2_AtMostOneSuccessor ==
    \A t \in DOMAIN rotations : rotations[t] <= 1

\* the stored key of the refresh-token record of a token identifier and a user
RecordKey(tokenId, userId) == buildKey(RefreshTokenKey(tokenId, userId), "auth")
\* the instant at which the credential was issued
IssuedAt(cred) == cred.exp - refreshTokenTTL * 1000
\* the step stored one record, that of the next token identifier and the user, to expire
\* after the refresh lifetime, and touched no other entry
StoresOneRecord(userId) ==
    LET k == RecordKey(TokenId(ntok + 1), userId)
    IN  /\ k \notin DOMAIN store
        /\ DOMAIN store' = DOMAIN store \cup {k}
        /\ store'[k].val = JsonStringify(RefreshTokenData(userId, TokenId(ntok + 1)))
        /\ store'[k].exp = now + refreshTokenTTL * 1000
        /\ \A j \in DOMAIN store : store'[j] = store[j]

Consumed(cred) == cred.tokenId \in DOMAIN rotations /\ rotations[cred.tokenId] > 0

\* C25 (as claimed): in every refreshToken call that succeeds, the consumed record has been
\* removed before the successor record is written: at the step that stores the successor,
\* a lookup of the consumed token identifier and subject misses.
C25_DeleteBeforeCreate ==
    [][\A p \in AuthSlots :
          (refreshTokenGenerate(p) /\ rtRet'.outcome = "ok")
              => Falsy(getRet(RefreshTokenKey(rt[p].cred.tokenId, rt[p].cred.sub), "auth").v)]_vars

\* C19 (as claimed): a refreshToken call that presents a credential whose record is not
\* in the store, whose lifetime has elapsed, which an earlier call has consumed, or which
\* fails signature verification, ends with the one authentication failure 'Invalid or
\* expired refresh token', whichever of these is the case.
C19_UniformRejection ==
    [][\A p \in AuthSlots, c \in creds \cup {ForgedCredential} :
          (/\ refreshToken(p, c)
           /\ \/ RecordKey(c.tokenId, c.sub) \notin DOMAIN store
              \/ now >= c.exp
              \/ Consumed(c)
              \/ ~c.signed)
              => /\ rtRet'.pc = "done" /\ rtRet'.outcome = "unauthorized"
                 /\ rtRet'.message = "Invalid or expired refresh token"]_vars

(***************************************************************************)
(* Properties of the revocation (specification RevokeSpec).                 *)
(***************************************************************************)
\* a refreshToken call that presents the credential, made now, is rejected
RejectedNow(cred) ==
    \A p \in AuthSlots :
        refreshToken(p, cred) => rtRet'.pc = "done" /\ rtRet'.outcome = "unauthorized"

\* C16 (as claimed): once revokeRefreshToken(tokenId) has returned, its store command
\* served, the record of that token identifier is absent from the store and a
\* refreshToken call that presents the credential carrying tokenId is rejected.
C16_RevokeRemoves ==
    [][(rtRet.pc = "done" /\ rtRet.outcome = "revoked" /\ ~rtRet.faulted)
          => /\ RecordKey(rtRet.cred.tokenId, rtRet.cred.sub) \notin DOMAIN store
             /\ RejectedNow(rtRet.cred)]_vars

\* C17 (as claimed): once revokeAllUserTokens(userId) has returned, its scan served, with
\* no token issued to the user since the call began and no refreshToken call in flight,
\* no refresh-token record of the user is in the store and every credential issued to the
\* user is rejected by refreshToken.
C17_RevokeAllRemoves ==
    [][(/\ rtRet.pc = "done" /\ rtRet.outcome = "revokedAll" /\ ~rtRet.faulted
        /\ rtRet.mark = ntok
        /\ \A p \in AuthSlots : ~AuthInFlight(p))
          => /\ \A i \in 1..ntok : RecordKey(TokenId(i), rtRet.cred.sub) \notin DOMAIN store
             /\ \A c \in creds : c.sub = rtRet.cred.sub => RejectedNow(c)]_vars
====
